---- MODULE Spec2Model ----
(***************************************************************************)
(* A model of base-ts-result: the synchronous Result (classes OK and ERR), *)
(* the error normalisation of baseResultError, the factories toResult and  *)
(* resultify, and AsyncResult with the promise machinery it runs on.       *)
(*                                                                         *)
(* JavaScript strings are sequences of one-character strings, so that      *)
(* concatenation, split('\n'), join and number formatting are computed.    *)
(* Objects live in a heap and are referred to by their index, which is     *)
(* their identity.  Promises live in a second heap; reactions and the      *)
(* microtask queue follow ECMAScript's promise jobs.                       *)
(***************************************************************************)
EXTENDS Integers, Sequences, FiniteSets, TLC

(***************************************************************************)
(* String literals of the source and of the inputs.                        *)
(***************************************************************************)
\* 'Tried to unwrap an Error result'
sUnwrapHead ==
    <<"T","r","i","e","d"," ","t","o"," ","u","n","w","r","a","p"," ","a","n"," ","E","r","r","o","r"," ","r","e","s","u","l","t">>
\* "Tried to unwrap Ok result's error"
sUnwrapErrMsg ==
    <<"T","r","i","e","d"," ","t","o"," ","u","n","w","r","a","p"," ","O","k"," ","r","e","s","u","l","t","'","s"," ","e","r","r","o","r">>
\* 'Tried to unwrap'
sTriedToUnwrap ==
    <<"T","r","i","e","d"," ","t","o"," ","u","n","w","r","a","p">>
\* '    '
origErrIndent ==
    <<" "," "," "," ">>
\* '> '
sPrefixMark ==
    <<">"," ">>
\* '\n'
sNL ==
    <<"\n">>
\* 'Original error:\n'
sOrigErrorNL ==
    <<"O","r","i","g","i","n","a","l"," ","e","r","r","o","r",":","\n">>
\* 'Original error is null'
sOrigIsNull ==
    <<"O","r","i","g","i","n","a","l"," ","e","r","r","o","r"," ","i","s"," ","n","u","l","l">>
\* 'Original error is object'
sOrigIsObject ==
    <<"O","r","i","g","i","n","a","l"," ","e","r","r","o","r"," ","i","s"," ","o","b","j","e","c","t">>
\* 'Original error is: '
sOrigIs ==
    <<"O","r","i","g","i","n","a","l"," ","e","r","r","o","r"," ","i","s",":"," ">>
\* '"'
sQuote ==
    <<"\"">>
\* 'Caught exotic value ('
sCaught ==
    <<"C","a","u","g","h","t"," ","e","x","o","t","i","c"," ","v","a","l","u","e"," ","(">>
\* ')'
sCloseParen ==
    <<")">>
\* ': '
sColonSp ==
    <<":"," ">>
\* ','
sComma ==
    <<",">>
\* 'BaseError'
sBaseError ==
    <<"B","a","s","e","E","r","r","o","r">>
\* 'Error'
sError ==
    <<"E","r","r","o","r">>
\* 'TypeError'
sTypeError ==
    <<"T","y","p","e","E","r","r","o","r">>
\* 'this.value.toString is not a function'
sToStringNotAFunction ==
    <<"t","h","i","s",".","v","a","l","u","e",".","t","o","S","t","r","i","n","g"," ","i","s"," ","n","o","t"," ","a"," ","f","u","n","c","t","i","o","n">>
\* 'str?.split is not a function'
sSplitNotAFunction ==
    <<"s","t","r","?",".","s","p","l","i","t"," ","i","s"," ","n","o","t"," ","a"," ","f","u","n","c","t","i","o","n">>
\* 'undefined'
sUndefined ==
    <<"u","n","d","e","f","i","n","e","d">>
\* 'null'
sNull ==
    <<"n","u","l","l">>
\* 'true'
sTrue ==
    <<"t","r","u","e">>
\* 'false'
sFalse ==
    <<"f","a","l","s","e">>
\* 'number'
sNumber ==
    <<"n","u","m","b","e","r">>
\* 'string'
sString ==
    <<"s","t","r","i","n","g">>
\* 'boolean'
sBoolean ==
    <<"b","o","o","l","e","a","n">>
\* 'object'
sObject ==
    <<"o","b","j","e","c","t">>
\* 'array'
sArray ==
    <<"a","r","r","a","y">>
\* '[object Object]'
sObjectObject ==
    <<"[","o","b","j","e","c","t"," ","O","b","j","e","c","t","]">>
\* '[object Promise]'
sObjectPromise ==
    <<"[","o","b","j","e","c","t"," ","P","r","o","m","i","s","e","]">>
\* '-'
sMinus ==
    <<"-">>
\* 'boom'
sBoom ==
    <<"b","o","o","m">>
\* 'Error: boom\n    at f'
sErrBoomStack ==
    <<"E","r","r","o","r",":"," ","b","o","o","m","\n"," "," "," "," ","a","t"," ","f">>
\* 'ErrorLike'
sErrorLike ==
    <<"E","r","r","o","r","L","i","k","e">>
\* 'message'
sMessage ==
    <<"m","e","s","s","a","g","e">>
\* 'ErrorLike: message\n    at some'
sErrorLikeStr ==
    <<"E","r","r","o","r","L","i","k","e",":"," ","m","e","s","s","a","g","e","\n"," "," "," "," ","a","t"," ","s","o","m","e">>
\* 'custom'
sCustom ==
    <<"c","u","s","t","o","m">>
\* 'err'
sErr ==
    <<"e","r","r">>
\* 'a\nb'
sTwoLines ==
    <<"a","\n","b">>
\* 'Should fail'
sMsgShouldFail ==
    <<"S","h","o","u","l","d"," ","f","a","i","l">>
\* 'm'
sMsgM ==
    <<"m">>
\* '\n    at <anonymous>'
sStackAt ==
    <<"\n"," "," "," "," ","a","t"," ","<","a","n","o","n","y","m","o","u","s",">">>

VARIABLES
    heap,      \* objects by identity: errors, plain objects, arrays, OK / ERR
    proms,     \* promises by identity: state, value, pending reactions
    jobs,      \* the microtask queue
    calls,     \* every invocation of a caller-supplied function, in order
    asyncs,    \* the API calls made on AsyncResult, with what they returned
    last,      \* the most recent API call and its outcome
    nCalls     \* number of API calls made

vars == <<heap, proms, jobs, calls, asyncs, last, nCalls>>

(***************************************************************************)
(* Bounds of the model.                                                    *)
(***************************************************************************)
MaxCalls == 2          \* calls of the Result constructors and methods
MaxFactoryCalls == 1   \* calls of a function made by toResult / resultify
MaxAsyncCalls == 2     \* calls of the AsyncResult API
MaxNormalizeCalls == 2 \* calls of thrownUnknownToBaseError
MaxChainCalls == 3     \* calls of the AsyncResult API in a chain

(***************************************************************************)
(* JavaScript values.  n is the number, the truth value (0 / 1) or the     *)
(* index of the object or promise; s is the text of a string.              *)
(***************************************************************************)
Val(k, n, s) == [k |-> k, n |-> n, s |-> s]
Undef == Val("undefined", 0, <<>>)
Null == Val("null", 0, <<>>)
Num(n) == Val("number", n, <<>>)
Str(s) == Val("string", 0, s)
Bool(b) == Val("boolean", IF b THEN 1 ELSE 0, <<>>)
Obj(id) == Val("object", id, <<>>)
Prom(id) == Val("promise", id, <<>>)

\* typeof v
TypeOf(v) ==
    CASE v.k = "undefined" -> sUndefined
      [] v.k = "number" -> sNumber
      [] v.k = "string" -> sString
      [] v.k = "boolean" -> sBoolean
      [] OTHER -> sObject

(***************************************************************************)
(* Strings.                                                                *)
(***************************************************************************)
Digit(d) ==
    CASE d = 0 -> "0" [] d = 1 -> "1" [] d = 2 -> "2" [] d = 3 -> "3"
      [] d = 4 -> "4" [] d = 5 -> "5" [] d = 6 -> "6" [] d = 7 -> "7"
      [] d = 8 -> "8" [] OTHER -> "9"

RECURSIVE NatToString(_)
NatToString(n) ==
    IF n < 10 THEN <<Digit(n)>> ELSE NatToString(n \div 10) \o <<Digit(n % 10)>>

\* String(n) for an integer n
NumToString(n) == IF n < 0 THEN sMinus \o NatToString(0 - n) ELSE NatToString(n)

\* str.split('\n')
RECURSIVE SplitLines(_)
SplitLines(s) ==
    IF \A i \in 1..Len(s) : s[i] # "\n" THEN <<s>>
    ELSE LET i == CHOOSE j \in 1..Len(s) :
                      s[j] = "\n" /\ \A k \in 1..(j - 1) : s[k] # "\n"
         IN <<SubSeq(s, 1, i - 1)>> \o SplitLines(SubSeq(s, i + 1, Len(s)))

\* lines.join(sep)
RECURSIVE JoinWith(_, _)
JoinWith(lines, sep) ==
    IF Len(lines) = 0 THEN <<>>
    ELSE IF Len(lines) = 1 THEN lines[1]
    ELSE lines[1] \o sep \o JoinWith(Tail(lines), sep)

StartsWith(s, p) == Len(p) <= Len(s) /\ SubSeq(s, 1, Len(p)) = p
Contains(s, p) ==
    \E i \in 0..(Len(s) - Len(p)) : SubSeq(s, i + 1, i + Len(p)) = p

(***************************************************************************)
(* Heap objects.  cls is the class of the object:                          *)
(*   Error      a native Error instance (name, message, stack)             *)
(*   ErrorLike  name and message fields and its own toString returning str *)
(*   NameMsg    name and message fields, Object.prototype.toString         *)
(*   Object     a plain object                                             *)
(*   Custom     an object with its own toString returning str              *)
(*   NullProto  an object without a toString (Object.create(null))         *)
(*   NullProtoNameMsg  an object without a toString that has name and      *)
(*              message fields                                             *)
(*   Array      an array of primitives, elems                              *)
(*   BaseError  the wrapper of baseResultError (name, message, origValue   *)
(*              in val)                                                    *)
(*   OK, ERR    the two Result classes, the held value in val              *)
(***************************************************************************)
HObj(cls, name, message, stack, val, str, elems) ==
    [cls |-> cls, name |-> name, message |-> message, stack |-> stack,
     val |-> val, str |-> str, elems |-> elems]

ResultObj(cls, v) == HObj(cls, <<>>, <<>>, Undef, v, Undef, <<>>)

\* The state the operations run on and change.  site is the number of the API
\* call on whose behalf code is running; it is written in the log of calls.
Machine(h, p, j, c, site) ==
    [heap |-> h, proms |-> p, jobs |-> j, calls |-> c, site |-> site]

\* The outcome of running code: the machine after it, and a return or a throw.
Ret(m, v) == [m |-> m, tag |-> "return", val |-> v]
Thr(m, v) == [m |-> m, tag |-> "throw", val |-> v]

Alloc(m, o) == [m EXCEPT !.heap = Append(@, o)]
NextId(m) == Len(m.heap) + 1

\* throw new <name>(msg): the stack is the engine's, "<name>: <msg>", or "<name>"
\* for an empty msg, and a frame
ThrowNew(m, name, msg) ==
    Thr(Alloc(m, HObj("Error", name, msg,
                      Str((IF msg = <<>> THEN name ELSE name \o sColonSp \o msg)
                             \o sStackAt),
                      Undef, Undef, <<>>)),
        Obj(NextId(m)))

\* throw new Error(msg)
ThrowNewError(m, msg) == ThrowNew(m, sError, msg)

\* value instanceof Error
InstanceOfError(h, v) == v.k = "object" /\ h[v.n].cls = "Error"

\* typeof value?.toString === 'function'
HasToString(h, v) ==
    CASE v.k \in {"undefined", "null"} -> FALSE
      [] v.k = "object" -> h[v.n].cls \notin {"NullProto", "NullProtoNameMsg"}
      [] OTHER -> TRUE

\* value.toString === Object.prototype.toString, for an object or a promise
IsDefaultToString(h, v) ==
    \/ v.k = "promise"
    \/ v.k = "object" /\ h[v.n].cls \in {"NameMsg", "Object", "OK", "ERR", "AsyncResult"}

\* String(v) for a primitive v, as string concatenation and templates do
PrimToString(v) ==
    CASE v.k = "undefined" -> sUndefined
      [] v.k = "null" -> sNull
      [] v.k = "number" -> NumToString(v.n)
      [] v.k = "boolean" -> (IF v.n = 1 THEN sTrue ELSE sFalse)
      [] OTHER -> v.s

\* Array.prototype.join over primitive elements: undefined and null are empty
ElemToString(v) == IF v.k \in {"undefined", "null"} THEN <<>> ELSE PrimToString(v)

\* Error.prototype.toString and BaseError.toString
ErrorToString(o) ==
    IF o.name = <<>> THEN o.message
    ELSE IF o.message = <<>> THEN o.name
    ELSE o.name \o sColonSp \o o.message

\* v.toString(), for a v that has a toString; the value it returns
ToStringOf(h, v) ==
    CASE v.k = "promise" -> Str(sObjectPromise)
      [] v.k = "object" ->
           LET o == h[v.n] IN
           CASE o.cls = "Error" -> Str(ErrorToString(o))
             [] o.cls = "BaseError" -> Str(o.name \o sColonSp \o o.message)
             [] o.cls \in {"ErrorLike", "Custom"} -> o.str
             [] o.cls = "Array" ->
                  Str(JoinWith([i \in 1..Len(o.elems) |-> ElemToString(o.elems[i])],
                               sComma))
             [] OTHER -> Str(sObjectObject)
      [] OTHER -> Str(PrimToString(v))

(***************************************************************************)
(* Caller-supplied functions.  A function is a record: name says what it   *)
(* does, v is the value it returns or throws where that is fixed.          *)
(*   identity   x => x                                                     *)
(*   typeOf     x => typeof x                                              *)
(*   returns    () => v                                                    *)
(*   throws     () => { throw v }                                          *)
(*   async      () => a new promise, settled later by the caller's code    *)
(*   asyncResult  the same, and the promise is one of a Result             *)
(*   none       no function was passed (an optional parameter left out)    *)
(***************************************************************************)
Fn(name, v) == [name |-> name, v |-> v]
NoFn == Fn("none", Undef)

\* a promise.  ext is "" for a promise the library or the engine made; a promise
\* made by the caller's code says what that code settles it with: "value" for
\* any value, "result" for a Result
PromObj(state, value, ext) ==
    [state |-> state, value |-> value, reactions |-> <<>>, ext |-> ext]

NewProm(m, p) == [m EXCEPT !.proms = Append(@, p)]
NextPromId(m) == Len(m.proms) + 1

\* f(...args): the call is recorded with what it returned or threw
Invoke(m, f, args) ==
    LET Log(mm, tag, ret) ==
            [mm EXCEPT !.calls =
                Append(@, [fn |-> f, args |-> args, tag |-> tag, ret |-> ret,
                           site |-> mm.site])]
        arg == IF Len(args) > 0 THEN args[1] ELSE Undef
    IN CASE f.name = "identity" -> Ret(Log(m, "return", arg), arg)
         [] f.name = "typeOf" ->
              Ret(Log(m, "return", Str(TypeOf(arg))), Str(TypeOf(arg)))
         [] f.name = "returns" -> Ret(Log(m, "return", f.v), f.v)
         [] f.name = "throws" -> Thr(Log(m, "throw", f.v), f.v)
         [] OTHER ->
              Ret(Log(NewProm(m, PromObj("pending", Undef,
                                         IF f.name = "async" THEN "value" ELSE "result")),
                      "return", Prom(NextPromId(m))),
                  Prom(NextPromId(m)))

(***************************************************************************)
(* baseResultError: thrownUnknownToBaseError and the class BaseError.      *)
(***************************************************************************)
\* 'message' in val && 'name' in val
HasNameAndMessage(o) ==
    o.cls \in {"Error", "ErrorLike", "NameMsg", "BaseError", "NullProtoNameMsg"}

\* !val
IsFalsy(v) ==
    \/ v.k \in {"undefined", "null"}
    \/ v.k = "number" /\ v.n = 0
    \/ v.k = "boolean" /\ v.n = 0
    \/ v.k = "string" /\ v.s = <<>>

\* isResultBaseError that takes native Errors only
isResultBaseError_nativeOnly(h, val) == InstanceOfError(h, val)

isResultBaseError(h, val) ==
    IF IsFalsy(val) \/ TypeOf(val) # sObject THEN FALSE
    ELSE /\ val.k = "object"
         /\ HasNameAndMessage(h[val.n])
         /\ ~IsDefaultToString(h, val)

\* BaseErrorMessage that takes typeof for the kind of every value
BaseErrorMessage_typeofOnly(h, origValue) ==
    LET message == sCaught \o TypeOf(origValue) \o sCloseParen
    IN IF ~HasToString(h, origValue) THEN message
       ELSE LET newMsg == ToStringOf(h, origValue)
            IN IF newMsg.k # "string" THEN message
               ELSE message \o sColonSp \o newMsg.s

\* the message built by new BaseError(origValue)
BaseErrorMessage(h, origValue) ==
    LET type == IF origValue.k = "object" /\ h[origValue.n].cls = "Array"
                THEN sArray ELSE TypeOf(origValue)
        message == sCaught \o type \o sCloseParen
    IN IF ~HasToString(h, origValue) THEN message
       ELSE LET newMsg == ToStringOf(h, origValue)
            IN IF newMsg.k # "string" THEN message
               ELSE message \o sColonSp \o newMsg.s

\* new BaseError(origValue)
NewBaseError(m, origValue) ==
    Ret(Alloc(m, HObj("BaseError", sBaseError, BaseErrorMessage(m.heap, origValue),
                      Undef, origValue, Undef, <<>>)),
        Obj(NextId(m)))

thrownUnknownToBaseError(m, origValue) ==
    IF InstanceOfError(m.heap, origValue) THEN Ret(m, origValue)
    ELSE IF isResultBaseError(m.heap, origValue) THEN Ret(m, origValue)
    ELSE NewBaseError(m, origValue)

(***************************************************************************)
(* result: the constructors Ok and Err and the classes ERR and OK.  this   *)
(* is the index of the receiver in the heap.                               *)
(***************************************************************************)
\* Ok(res): new OK(res)
Ok(m, res) == Ret(Alloc(m, ResultObj("OK", res)), Obj(NextId(m)))

\* Err(err): new ERR(err)
Err(m, err) == Ret(Alloc(m, ResultObj("ERR", err)), Obj(NextId(m)))

origErrorPrefix == origErrIndent \o sPrefixMark

ERR_prefixMultiLineStr(m, str) ==
    IF str.k \in {"undefined", "null"} THEN Ret(m, Undef)
    ELSE IF str.k # "string" THEN ThrowNew(m, sTypeError, sSplitNotAFunction)
    ELSE LET lines == SplitLines(str.s)
         IN Ret(m, Str(JoinWith([i \in 1..Len(lines) |-> origErrorPrefix \o lines[i]],
                                sNL)))

ERR_getAdditionalErrorMessage(m, this) ==
    LET value == m.heap[this].val IN
    IF InstanceOfError(m.heap, value)
    THEN LET p == ERR_prefixMultiLineStr(m, m.heap[value.n].stack)
         IN IF p.tag = "throw" THEN p
            ELSE Ret(p.m, Str(sOrigErrorNL \o PrimToString(p.val)))
    ELSE IF TypeOf(value) = sObject
    THEN IF value.k = "null" THEN Ret(m, Str(sOrigIsNull))
         ELSE IF IsDefaultToString(m.heap, value) THEN Ret(m, Str(sOrigIsObject))
         ELSE IF ~HasToString(m.heap, value)
         THEN ThrowNew(m, sTypeError, sToStringNotAFunction)
         ELSE LET p == ERR_prefixMultiLineStr(m, ToStringOf(m.heap, value))
              IN IF p.tag = "throw" THEN p
                 ELSE Ret(p.m, Str(sOrigErrorNL \o PrimToString(p.val)))
    ELSE IF value.k = "number" THEN Ret(m, Str(sOrigIs \o NumToString(value.n)))
    ELSE IF value.k = "string"
    THEN Ret(m, Str(sOrigIs \o sQuote \o value.s \o sQuote))
    ELSE Ret(m, Undef)

ERR_throwError(m, this, msg) ==
    LET g == ERR_getAdditionalErrorMessage(m, this)
    IN IF g.tag = "throw" THEN g
       ELSE ThrowNewError(g.m, msg \o sNL \o origErrIndent \o PrimToString(g.val))

ERR_unwrap(m, this) == ERR_throwError(m, this, sUnwrapHead)

ERR_unwrapOr(m, this, alt) == Ret(m, alt)

ERR_unwrapOrElse(m, this, altValFactory) ==
    Invoke(m, altValFactory, <<m.heap[this].val>>)

ERR_expect(m, this, msg) == ERR_throwError(m, this, msg)

ERR_expectErr(m, this, msg) == Ret(m, m.heap[this].val)

ERR_unwrapErr(m, this) == Ret(m, m.heap[this].val)

ERR_isOk(m, this) == Ret(m, Bool(FALSE))

ERR_isErr(m, this) == Ret(m, Bool(TRUE))

\* ERR_ok that raises as unwrap does
ERR_ok_raises(m, this) == ERR_throwError(m, this, sUnwrapHead)

ERR_ok(m, this) == Ret(m, Undef)

ERR_err(m, this) == Ret(m, m.heap[this].val)

ERR_inspect(m, this, inspector) == Ret(m, Obj(this))

ERR_inspectErr(m, this, inspector) ==
    LET c == Invoke(m, inspector, <<m.heap[this].val>>)
    IN IF c.tag = "throw" THEN c ELSE Err(c.m, m.heap[this].val)

\* ERR_map with the mapper applied to the held error
ERR_map_applies(m, this, mapper) ==
    LET c == Invoke(m, mapper, <<m.heap[this].val>>)
    IN IF c.tag = "throw" THEN c ELSE Err(c.m, c.val)

ERR_map(m, this, mapper) == Err(m, m.heap[this].val)

\* ERR_mapOrElse that keeps the failure variant
ERR_mapOrElse_keepsErr(m, this, mapper, fallback) ==
    LET c == Invoke(m, fallback, <<m.heap[this].val>>)
    IN IF c.tag = "throw" THEN c ELSE Err(c.m, c.val)

ERR_mapOrElse(m, this, mapper, fallback) ==
    LET c == Invoke(m, fallback, <<m.heap[this].val>>)
    IN IF c.tag = "throw" THEN c ELSE Ok(c.m, c.val)

ERR_mapErr(m, this, mapper) ==
    LET c == Invoke(m, mapper, <<m.heap[this].val>>)
    IN IF c.tag = "throw" THEN c ELSE Err(c.m, c.val)

OK_unwrap(m, this) == Ret(m, m.heap[this].val)

\* OK_unwrapOr that returns the alternative
OK_unwrapOr_alt(m, this, alt) == Ret(m, alt)

OK_unwrapOr(m, this, alt) == Ret(m, m.heap[this].val)

OK_unwrapOrElse(m, this, altValFactory) == Ret(m, m.heap[this].val)

OK_expect(m, this, msg) == Ret(m, m.heap[this].val)

\* OK_expectErr that raises unwrapErr's message
OK_expectErr_fixedMsg(m, this, msg) == ThrowNewError(m, sUnwrapErrMsg)

OK_expectErr(m, this, msg) == ThrowNewError(m, msg)

OK_unwrapErr(m, this) == ThrowNewError(m, sUnwrapErrMsg)

OK_isOk(m, this) == Ret(m, Bool(TRUE))

OK_isErr(m, this) == Ret(m, Bool(FALSE))

OK_ok(m, this) == Ret(m, m.heap[this].val)

OK_err(m, this) == Ret(m, Undef)

\* OK_inspect that holds what the inspector returned
OK_inspect_keepsReturn(m, this, inspector) ==
    LET c == Invoke(m, inspector, <<m.heap[this].val>>)
    IN IF c.tag = "throw" THEN c ELSE Ok(c.m, c.val)

OK_inspect(m, this, inspector) ==
    LET c == Invoke(m, inspector, <<m.heap[this].val>>)
    IN IF c.tag = "throw" THEN c ELSE Ok(c.m, m.heap[this].val)

OK_inspectErr(m, this, inspector) == Ok(m, m.heap[this].val)

OK_map(m, this, mapper) ==
    LET c == Invoke(m, mapper, <<m.heap[this].val>>)
    IN IF c.tag = "throw" THEN c ELSE Ok(c.m, c.val)

OK_mapOrElse(m, this, mapper, fallback) ==
    LET c == Invoke(m, mapper, <<m.heap[this].val>>)
    IN IF c.tag = "throw" THEN c ELSE Ok(c.m, c.val)

OK_mapErr(m, this, mapper) == Ok(m, m.heap[this].val)

(***************************************************************************)
(* The arguments of an API call, in one shape: the alternative value, the  *)
(* message, up to two functions, and the parameters passed on.             *)
(***************************************************************************)
Args(alt, msg, cb, cb2, params) ==
    [alt |-> alt, msg |-> msg, cb |-> cb, cb2 |-> cb2, params |-> params]
NoArgs == Args(Undef, <<>>, NoFn, NoFn, <<>>)

\* result.<op>(...): the method of the receiver's class
ResultOp(m, this, op, a) ==
    LET isErr == m.heap[this].cls = "ERR" IN
    CASE op = "unwrap" -> IF isErr THEN ERR_unwrap(m, this) ELSE OK_unwrap(m, this)
      [] op = "unwrapErr" ->
           IF isErr THEN ERR_unwrapErr(m, this) ELSE OK_unwrapErr(m, this)
      [] op = "unwrapOr" ->
           IF isErr THEN ERR_unwrapOr(m, this, a.alt) ELSE OK_unwrapOr(m, this, a.alt)
      [] op = "unwrapOrElse" ->
           IF isErr THEN ERR_unwrapOrElse(m, this, a.cb)
           ELSE OK_unwrapOrElse(m, this, a.cb)
      [] op = "expect" ->
           IF isErr THEN ERR_expect(m, this, a.msg) ELSE OK_expect(m, this, a.msg)
      [] op = "expectErr" ->
           IF isErr THEN ERR_expectErr(m, this, a.msg) ELSE OK_expectErr(m, this, a.msg)
      [] op = "isOk" -> IF isErr THEN ERR_isOk(m, this) ELSE OK_isOk(m, this)
      [] op = "isErr" -> IF isErr THEN ERR_isErr(m, this) ELSE OK_isErr(m, this)
      [] op = "ok" -> IF isErr THEN ERR_ok(m, this) ELSE OK_ok(m, this)
      [] op = "err" -> IF isErr THEN ERR_err(m, this) ELSE OK_err(m, this)
      [] op = "inspect" ->
           IF isErr THEN ERR_inspect(m, this, a.cb) ELSE OK_inspect(m, this, a.cb)
      [] op = "inspectErr" ->
           IF isErr THEN ERR_inspectErr(m, this, a.cb)
           ELSE OK_inspectErr(m, this, a.cb)
      [] op = "map" -> IF isErr THEN ERR_map(m, this, a.cb) ELSE OK_map(m, this, a.cb)
      [] op = "mapOrElse" ->
           IF isErr THEN ERR_mapOrElse(m, this, a.cb, a.cb2)
           ELSE OK_mapOrElse(m, this, a.cb, a.cb2)
      [] OTHER ->
           IF isErr THEN ERR_mapErr(m, this, a.cb) ELSE OK_mapErr(m, this, a.cb)

(***************************************************************************)
(* Promises: reactions, settlement and the microtask queue.  A reaction    *)
(* names the code that runs when the promise settles (h), the promise that *)
(* code settles (target) and the operation and arguments it closes over.   *)
(***************************************************************************)
Reaction(h, target, op, a, site) ==
    [h |-> h, target |-> target, op |-> op, a |-> a, site |-> site]

\* a reaction job, or (thenable > 0) a job that calls thenable.then(resolve, reject)
Job(r, state, value, thenable) ==
    [r |-> r, state |-> state, value |-> value, thenable |-> thenable]

Enqueue(m, j) == [m EXCEPT !.jobs = Append(@, j)]

\* Settle that runs the reactions registered last first
Settle_lastFirst(m, p, state, value) ==
    IF m.proms[p].state # "pending" THEN m
    ELSE LET rs == m.proms[p].reactions IN
         [m EXCEPT !.proms[p].state = state,
                   !.proms[p].value = value,
                   !.proms[p].reactions = <<>>,
                   !.jobs = @ \o [i \in 1..Len(rs) |->
                                     Job(rs[Len(rs) + 1 - i], state, value, 0)]]

\* FulfillPromise / RejectPromise: one job per reaction, in registration order
Settle(m, p, state, value) ==
    IF m.proms[p].state # "pending" THEN m
    ELSE LET rs == m.proms[p].reactions IN
         [m EXCEPT !.proms[p].state = state,
                   !.proms[p].value = value,
                   !.proms[p].reactions = <<>>,
                   !.jobs = @ \o [i \in 1..Len(rs) |-> Job(rs[i], state, value, 0)]]

RejectP(m, p, reason) == Settle(m, p, "rejected", reason)

\* the resolve function of p: a promise is followed, any other value fulfils
ResolveP(m, p, x) ==
    IF x.k = "promise"
    THEN Enqueue(m, Job(Reaction("resolveFns", p, "", NoArgs, m.site),
                        "fulfilled", Undef, x.n))
    ELSE Settle(m, p, "fulfilled", x)

\* Then that registers nothing on a promise that is still pending
Then_forgets(m, p, r) ==
    IF m.proms[p].state = "pending" THEN m
    ELSE Enqueue(m, Job(r, m.proms[p].state, m.proms[p].value, 0))

\* PerformPromiseThen
Then(m, p, r) ==
    IF m.proms[p].state = "pending"
    THEN [m EXCEPT !.proms[p].reactions = Append(@, r)]
    ELSE Enqueue(m, Job(r, m.proms[p].state, m.proms[p].value, 0))

\* await x, with r the continuation: a promise is waited for, any other value
\* resumes in a later microtask
Await(m, x, r) ==
    IF x.k = "promise" THEN Then(m, x.n, r)
    ELSE Enqueue(m, Job(r, "fulfilled", x, 0))

\* the completion of an async function whose promise is p
Complete(o, p) ==
    IF o.tag = "return" THEN ResolveP(o.m, p, o.val) ELSE RejectP(o.m, p, o.val)

(***************************************************************************)
(* asyncResult: the class AsyncResult.  An AsyncResult is a heap object    *)
(* whose val is its promise.                                               *)
(***************************************************************************)
\* new AsyncResult(promise)
NewAsyncResult(m, promise) ==
    Ret(Alloc(m, HObj("AsyncResult", <<>>, <<>>, Undef, promise, Undef, <<>>)),
        Obj(NextId(m)))

\* promise.then((val) => Ok(val)).catch((err) => Err(thrownUnknownToBaseError(err)))
AsyncResult_fromPromise(m, promise) ==
    LET t == NextPromId(m)
        m1 == NewProm(m, PromObj("pending", Undef, ""))
        m2 == Then(m1, promise.n, Reaction("fromPromise.then", t, "", NoArgs, m.site))
        c == NextPromId(m2)
        m3 == NewProm(m2, PromObj("pending", Undef, ""))
        m4 == Then(m3, t, Reaction("fromPromise.catch", c, "", NoArgs, m.site))
    IN NewAsyncResult(m4, Prom(c))

\* AsyncResult_fromResult that wraps the result in a success
AsyncResult_fromResult_wraps(m, result) ==
    LET r == Ok(m, result)
    IN NewAsyncResult(NewProm(r.m, PromObj("fulfilled", r.val, "")),
                      Prom(NextPromId(r.m)))

\* new AsyncResult(Promise.resolve(result))
AsyncResult_fromResult(m, result) ==
    NewAsyncResult(NewProm(m, PromObj("fulfilled", result, "")), Prom(NextPromId(m)))

\* AsyncResult_fromResultPromise that catches as fromPromise does
AsyncResult_fromResultPromise_catches(m, resultPromise) ==
    AsyncResult_fromPromise(m, resultPromise)

\* new AsyncResult(resultPromise)
AsyncResult_fromResultPromise(m, resultPromise) == NewAsyncResult(m, resultPromise)

ERR_toAsync(m, this) == AsyncResult_fromResult(m, Obj(this))

OK_toAsync(m, this) == AsyncResult_fromResult(m, Obj(this))

\* The query methods: async <op>(...) { return (await this.promise).<op>(...) }.
\* The call makes the method's promise and waits for this.promise.
AsyncResult_query(m, this, op, a) ==
    LET q == NextPromId(m)
        m1 == NewProm(m, PromObj("pending", Undef, ""))
    IN Ret(Then(m1, m.heap[this].val.n, Reaction("query", q, op, a, m.site)), Prom(q))

\* ... and this is the rest of the method, run with the awaited result res
\* AsyncResult_queryResume whose unwrapOrElse calls the factory on a success too
AsyncResult_queryResume_alwaysFactory(m, res, op, a) ==
    IF op = "unwrapOrElse"
    THEN Invoke(m, a.cb, <<m.heap[res].val>>)
    ELSE ResultOp(m, res, op, a)

\* AsyncResult_queryResume whose unwrapOr is unwrap
AsyncResult_queryResume_unwrapOrRaises(m, res, op, a) ==
    IF op = "unwrapOrElse"
    THEN IF ResultOp(m, res, "isOk", NoArgs).val = Bool(TRUE)
         THEN ResultOp(m, res, "unwrap", NoArgs)
         ELSE LET e == ResultOp(m, res, "unwrapErr", NoArgs)
              IN Invoke(e.m, a.cb, <<e.val>>)
    ELSE ResultOp(m, res, IF op = "unwrapOr" THEN "unwrap" ELSE op, a)

AsyncResult_queryResume(m, res, op, a) ==
    IF op = "unwrapOrElse"
    THEN IF ResultOp(m, res, "isOk", NoArgs).val = Bool(TRUE)
         THEN ResultOp(m, res, "unwrap", NoArgs)
         ELSE LET e == ResultOp(m, res, "unwrapErr", NoArgs)
              IN Invoke(e.m, a.cb, <<e.val>>)
    ELSE ResultOp(m, res, op, a)

\* AsyncResult_thenInternal that gives up at once instead of waiting
AsyncResult_thenInternal_givesUp(m, this, op, a) ==
    LET d == NextPromId(m)
    IN NewAsyncResult(NewProm(m, PromObj("rejected", Undef, "")), Prom(d))

\* new AsyncResult(this.promise.then(mapper))
AsyncResult_thenInternal(m, this, op, a) ==
    LET d == NextPromId(m)
        m1 == NewProm(m, PromObj("pending", Undef, ""))
    IN NewAsyncResult(Then(m1, m.heap[this].val.n,
                           Reaction("thenInternal", d, op, a, m.site)),
                      Prom(d))

\* AsyncResult_mapperBody that wraps what the function returns without awaiting it
AsyncResult_mapperBody_noAwait(m, p, res, op, a) ==
    LET isOk == ResultOp(m, res, "isOk", NoArgs).val = Bool(TRUE)
        held == m.heap[res].val
        WrapCall(f, wrap) ==
            LET c == Invoke(m, f, <<held>>)
            IN IF c.tag = "throw" THEN RejectP(c.m, p, c.val)
               ELSE Complete(IF wrap = "Ok" THEN Ok(c.m, c.val) ELSE Err(c.m, c.val), p)
    IN CASE op \in {"inspect", "inspectErr"} -> Complete(ResultOp(m, res, op, a), p)
         [] op = "map" ->
              IF isOk THEN WrapCall(a.cb, "Ok") ELSE Complete(Err(m, held), p)
         [] op = "mapOrElse" ->
              IF isOk THEN WrapCall(a.cb, "Ok") ELSE WrapCall(a.cb2, "Ok")
         [] OTHER ->
              IF isOk THEN Complete(Ok(m, held), p) ELSE WrapCall(a.cb, "Err")

\* AsyncResult_mapperBody whose map and mapErr apply the function to either variant
AsyncResult_mapperBody_mapsBoth(m, p, res, op, a) ==
    LET isOk == ResultOp(m, res, "isOk", NoArgs).val = Bool(TRUE)
        held == m.heap[res].val
        AwaitCall(f, wrap) ==
            LET c == Invoke(m, f, <<held>>)
            IN IF c.tag = "throw" THEN RejectP(c.m, p, c.val)
               ELSE Await(c.m, c.val, Reaction("awaitWrap", p, wrap, NoArgs, m.site))
    IN CASE op \in {"inspect", "inspectErr"} -> Complete(ResultOp(m, res, op, a), p)
         [] op = "map" -> AwaitCall(a.cb, IF isOk THEN "Ok" ELSE "Err")
         [] op = "mapOrElse" ->
              IF isOk THEN AwaitCall(a.cb, "Ok") ELSE AwaitCall(a.cb2, "Ok")
         [] OTHER -> AwaitCall(a.cb, IF isOk THEN "Ok" ELSE "Err")

\* AsyncResult_mapperBody whose inspect and inspectErr await what the function returns
AsyncResult_mapperBody_inspectAwaits(m, p, res, op, a) ==
    LET isOk == ResultOp(m, res, "isOk", NoArgs).val = Bool(TRUE)
        held == m.heap[res].val
        AwaitCall(f, wrap) ==
            LET c == Invoke(m, f, <<held>>)
            IN IF c.tag = "throw" THEN RejectP(c.m, p, c.val)
               ELSE Await(c.m, c.val, Reaction("awaitWrap", p, wrap, NoArgs, m.site))
    IN CASE op = "inspect" ->
              IF isOk THEN AwaitCall(a.cb, "Ok") ELSE Complete(Err(m, held), p)
         [] op = "inspectErr" ->
              IF isOk THEN Complete(Ok(m, held), p) ELSE AwaitCall(a.cb, "Err")
         [] op = "map" ->
              IF isOk THEN AwaitCall(a.cb, "Ok") ELSE Complete(Err(m, held), p)
         [] op = "mapOrElse" ->
              IF isOk THEN AwaitCall(a.cb, "Ok") ELSE AwaitCall(a.cb2, "Ok")
         [] OTHER ->
              IF isOk THEN Complete(Ok(m, held), p) ELSE AwaitCall(a.cb, "Err")

\* The async arrow functions that inspect, inspectErr, map, mapOrElse and mapErr
\* pass to thenInternal, run with the result res; p is the arrow's own promise.
AsyncResult_mapperBody(m, p, res, op, a) ==
    LET isOk == ResultOp(m, res, "isOk", NoArgs).val = Bool(TRUE)
        held == m.heap[res].val
        AwaitCall(f, wrap) ==
            LET c == Invoke(m, f, <<held>>)
            IN IF c.tag = "throw" THEN RejectP(c.m, p, c.val)
               ELSE Await(c.m, c.val, Reaction("awaitWrap", p, wrap, NoArgs, m.site))
    IN CASE op \in {"inspect", "inspectErr"} -> Complete(ResultOp(m, res, op, a), p)
         [] op = "map" ->
              IF isOk THEN AwaitCall(a.cb, "Ok") ELSE Complete(Err(m, held), p)
         [] op = "mapOrElse" ->
              IF isOk THEN AwaitCall(a.cb, "Ok") ELSE AwaitCall(a.cb2, "Ok")
         [] OTHER ->
              IF isOk THEN Complete(Ok(m, held), p) ELSE AwaitCall(a.cb, "Err")

\* AsyncResult_mapperResume that turns a rejection into a failure
AsyncResult_mapperResume_catches(m, p, wrap, state, value) ==
    IF state = "fulfilled"
    THEN Complete(IF wrap = "Ok" THEN Ok(m, value) ELSE Err(m, value), p)
    ELSE Complete(Err(m, value), p)

\* the rest of such an arrow after its await: Ok(<awaited>) or Err(<awaited>)
AsyncResult_mapperResume(m, p, wrap, state, value) ==
    IF state = "fulfilled"
    THEN Complete(IF wrap = "Ok" THEN Ok(m, value) ELSE Err(m, value), p)
    ELSE RejectP(m, p, value)

\* fromPromise's .then((val) => Ok(val)), settling the promise target
fromPromise_then(m, target, state, value) ==
    IF state = "fulfilled" THEN Complete(Ok(m, value), target)
    ELSE RejectP(m, target, value)

\* fromPromise's .catch((err) => Err(thrownUnknownToBaseError(err)))
\* fromPromise_catch that wraps the reason as it is
fromPromise_catch_raw(m, target, state, value) ==
    IF state = "fulfilled" THEN ResolveP(m, target, value)
    ELSE Complete(Err(m, value), target)

fromPromise_catch(m, target, state, value) ==
    IF state = "fulfilled" THEN ResolveP(m, target, value)
    ELSE LET n == thrownUnknownToBaseError(m, value)
         IN Complete(Err(n.m, n.val), target)

\* The code a reaction runs when its promise has settled.
RunReaction(m, r, state, value) ==
    CASE r.h = "fromPromise.then" -> fromPromise_then(m, r.target, state, value)
      [] r.h = "fromPromise.catch" -> fromPromise_catch(m, r.target, state, value)
      [] r.h = "query" ->
           IF state = "fulfilled"
           THEN Complete(AsyncResult_queryResume(m, value.n, r.op, r.a), r.target)
           ELSE RejectP(m, r.target, value)
      [] r.h = "thenInternal" ->
           IF state = "fulfilled"
           THEN LET p == NextPromId(m)
                    m1 == NewProm(m, PromObj("pending", Undef, ""))
                IN ResolveP(AsyncResult_mapperBody(m1, p, value.n, r.op, r.a),
                            r.target, Prom(p))
           ELSE RejectP(m, r.target, value)
      [] r.h = "awaitWrap" -> AsyncResult_mapperResume(m, r.target, r.op, state, value)
      [] OTHER ->
           IF state = "fulfilled" THEN ResolveP(m, r.target, value)
           ELSE RejectP(m, r.target, value)

\* one microtask, on behalf of the API call that registered it
RunJobOn(m, j) ==
    LET m1 == [m EXCEPT !.site = j.r.site]
    IN IF j.thenable > 0 THEN Then(m1, j.thenable, j.r)
       ELSE RunReaction(m1, j.r, j.state, j.value)

(***************************************************************************)
(* The factories of result and asyncResult.                                *)
(***************************************************************************)
\* toResult that normalises what fn throws, as resultify does
toResult_normalizes(m, fn) ==
    LET c == Invoke(m, fn, <<>>)
    IN IF c.tag = "return" THEN Ok(c.m, c.val)
       ELSE LET e == thrownUnknownToBaseError(c.m, c.val) IN Err(e.m, e.val)

toResult(m, fn) ==
    LET c == Invoke(m, fn, <<>>)
    IN IF c.tag = "return" THEN Ok(c.m, c.val) ELSE Err(c.m, c.val)

\* resultify(fn, mapErr)(...params)
\* resultify that leaves mapErr out
resultify_noMapErr(m, fn, mapErr, params) ==
    LET c == Invoke(m, fn, params)
    IN IF c.tag = "return" THEN Ok(c.m, c.val)
       ELSE LET wrappedErr == thrownUnknownToBaseError(c.m, c.val)
            IN Err(wrappedErr.m, wrappedErr.val)

resultify(m, fn, mapErr, params) ==
    LET c == Invoke(m, fn, params)
    IN IF c.tag = "return" THEN Ok(c.m, c.val)
       ELSE LET wrappedErr == thrownUnknownToBaseError(c.m, c.val)
            IN IF mapErr # NoFn
               THEN LET e == Invoke(wrappedErr.m, mapErr, <<wrappedErr.val>>)
                    IN IF e.tag = "throw" THEN e ELSE Err(e.m, e.val)
               ELSE Err(wrappedErr.m, wrappedErr.val)

AsyncResult_mapErr(m, this, mapper) ==
    AsyncResult_thenInternal(m, this, "mapErr", Args(Undef, <<>>, mapper, NoFn, <<>>))

\* asyncResultify that runs fn again for the AsyncResult it returns
asyncResultify_retries(m, fn, mapErr, params) ==
    LET c0 == Invoke(m, fn, params)
        c == Invoke(c0.m, fn, params)
    IN IF c.tag = "throw" THEN c
       ELSE LET asyncPromise == AsyncResult_fromPromise(c.m, c.val)
            IN IF mapErr # NoFn
               THEN AsyncResult_mapErr(asyncPromise.m, asyncPromise.val.n, mapErr)
               ELSE asyncPromise

\* asyncResultify(fn, mapErr)(...params)
asyncResultify(m, fn, mapErr, params) ==
    LET c == Invoke(m, fn, params)
    IN IF c.tag = "throw" THEN c
       ELSE LET asyncPromise == AsyncResult_fromPromise(c.m, c.val)
            IN IF mapErr # NoFn
               THEN AsyncResult_mapErr(asyncPromise.m, asyncPromise.val.n, mapErr)
               ELSE asyncPromise

\* createAsyncResult(fn)(...params)
createAsyncResult(m, fn, params) ==
    LET c == Invoke(m, fn, params)
    IN IF c.tag = "throw" THEN c ELSE AsyncResult_fromResultPromise(c.m, c.val)

toAsyncResult(m, promise) == AsyncResult_fromPromise(m, promise)

(***************************************************************************)
(* Inputs.  The heap starts with the objects the caller's code made.       *)
(***************************************************************************)
BaseHeap ==
    << HObj("Error", sError, sBoom, Str(sErrBoomStack), Undef, Undef, <<>>),
       HObj("Error", sError, sBoom, Undef, Undef, Undef, <<>>),
       HObj("ErrorLike", sErrorLike, sMessage, Undef, Undef, Str(sErrorLikeStr), <<>>),
       HObj("NameMsg", sErrorLike, sMessage, Undef, Undef, Undef, <<>>),
       HObj("Object", <<>>, <<>>, Undef, Undef, Undef, <<>>),
       HObj("Custom", <<>>, <<>>, Undef, Undef, Str(sCustom), <<>>),
       HObj("Custom", <<>>, <<>>, Undef, Undef, Num(42), <<>>),
       HObj("NullProto", <<>>, <<>>, Undef, Undef, Undef, <<>>),
       HObj("Array", <<>>, <<>>, Undef, Undef, Undef, <<Num(1), Str(sErr)>>),
       HObj("NullProtoNameMsg", sErrorLike, sMessage, Undef, Undef, Undef, <<>>),
       HObj("Error", sError, sBoom, Num(42), Undef, Undef, <<>>) >>

Primitives ==
    {Undef, Null, Num(5), Num(0), Num(0 - 12), Str(sErr), Str(sTwoLines),
     Bool(TRUE), Bool(FALSE)}

Values == Primitives \cup {Obj(i) : i \in 1..Len(BaseHeap)}

Alts == {Num(0), Undef, Obj(1)}

Msgs == {sMsgM, sMsgShouldFail, <<>>}

Fns ==
    {Fn("identity", Undef), Fn("typeOf", Undef), Fn("returns", Num(7)),
     Fn("throws", Num(1)), Fn("async", Undef)}

Fallbacks == {Fn("typeOf", Undef), Fn("throws", Num(1))}

ParamLists == {<<>>, <<Num(5)>>}

(***************************************************************************)
(* The synchronous API as a state machine: every action is one call.       *)
(***************************************************************************)
CurM == Machine(heap, proms, jobs, calls, nCalls + 1)

NoLast ==
    [op |-> "", recv |-> 0, a |-> NoArgs, tag |-> "", val |-> Undef,
     heapBefore |-> 0, callsBefore |-> 0]

\* the call op(a) on recv ran with outcome o
Step(op, recv, a, o) ==
    /\ heap' = o.m.heap
    /\ proms' = o.m.proms
    /\ jobs' = o.m.jobs
    /\ calls' = o.m.calls
    /\ last' = [op |-> op, recv |-> recv, a |-> a, tag |-> o.tag, val |-> o.val,
                heapBefore |-> Len(heap), callsBefore |-> Len(calls)]
    /\ nCalls' = nCalls + 1

Results == {i \in 1..Len(heap) : heap[i].cls \in {"OK", "ERR"}}

Init ==
    /\ heap = BaseHeap
    /\ proms = <<>>
    /\ jobs = <<>>
    /\ calls = <<>>
    /\ asyncs = <<>>
    /\ last = NoLast
    /\ nCalls = 0

\* a call on a Result with no argument
Call0(op) ==
    /\ nCalls < MaxCalls
    /\ \E r \in Results : Step(op, r, NoArgs, ResultOp(CurM, r, op, NoArgs))
    /\ UNCHANGED asyncs

\* a call on a Result with one function
CallFn(op) ==
    /\ nCalls < MaxCalls
    /\ \E r \in Results, f \in Fns :
          LET a == Args(Undef, <<>>, f, NoFn, <<>>)
          IN Step(op, r, a, ResultOp(CurM, r, op, a))
    /\ UNCHANGED asyncs

\* a call on a Result with a message
CallMsg(op) ==
    /\ nCalls < MaxCalls
    /\ \E r \in Results, msg \in Msgs :
          LET a == Args(Undef, msg, NoFn, NoFn, <<>>)
          IN Step(op, r, a, ResultOp(CurM, r, op, a))
    /\ UNCHANGED asyncs

CallOk ==
    /\ nCalls < MaxCalls
    /\ \E v \in Values : Step("Ok", 0, Args(Undef, <<>>, NoFn, NoFn, <<v>>), Ok(CurM, v))
    /\ UNCHANGED asyncs

CallErr ==
    /\ nCalls < MaxCalls
    /\ \E v \in Values : Step("Err", 0, Args(Undef, <<>>, NoFn, NoFn, <<v>>), Err(CurM, v))
    /\ UNCHANGED asyncs

Unwrap == Call0("unwrap")
UnwrapErr == Call0("unwrapErr")
IsOk == Call0("isOk")
IsErr == Call0("isErr")
GetOk == Call0("ok")
GetErr == Call0("err")
Expect == CallMsg("expect")
ExpectErr == CallMsg("expectErr")
UnwrapOrElse == CallFn("unwrapOrElse")
Inspect == CallFn("inspect")
InspectErr == CallFn("inspectErr")
Map == CallFn("map")
MapErr == CallFn("mapErr")

UnwrapOr ==
    /\ nCalls < MaxCalls
    /\ \E r \in Results, alt \in Alts :
          LET a == Args(alt, <<>>, NoFn, NoFn, <<>>)
          IN Step("unwrapOr", r, a, ResultOp(CurM, r, "unwrapOr", a))
    /\ UNCHANGED asyncs

MapOrElse ==
    /\ nCalls < MaxCalls
    /\ \E r \in Results, f \in Fns, g \in Fallbacks :
          LET a == Args(Undef, <<>>, f, g, <<>>)
          IN Step("mapOrElse", r, a, ResultOp(CurM, r, "mapOrElse", a))
    /\ UNCHANGED asyncs

ToAsync ==
    /\ nCalls < MaxCalls
    /\ \E r \in Results :
          Step("toAsync", r, NoArgs,
               IF heap[r].cls = "ERR" THEN ERR_toAsync(CurM, r) ELSE OK_toAsync(CurM, r))
    /\ UNCHANGED asyncs

\* the function passed to toResult and resultify returns or throws any value
ThrowingFns == {Fn("returns", v) : v \in Values} \cup {Fn("throws", v) : v \in Values}

ToResult ==
    /\ nCalls < MaxFactoryCalls
    /\ \E fn \in ThrowingFns :
          Step("toResult", 0, Args(Undef, <<>>, fn, NoFn, <<>>), toResult(CurM, fn))
    /\ UNCHANGED asyncs

ErrMappers == {NoFn, Fn("identity", Undef), Fn("typeOf", Undef), Fn("throws", Num(1))}

Resultify ==
    /\ nCalls < MaxFactoryCalls
    /\ \E fn \in ThrowingFns, mapErr \in ErrMappers, params \in ParamLists :
          Step("resultify", 0, Args(Undef, <<>>, fn, mapErr, params),
               resultify(CurM, fn, mapErr, params))
    /\ UNCHANGED asyncs

Next ==
    \/ CallOk \/ CallErr
    \/ Unwrap \/ UnwrapErr \/ UnwrapOr \/ UnwrapOrElse
    \/ Expect \/ ExpectErr
    \/ IsOk \/ IsErr \/ GetOk \/ GetErr
    \/ Inspect \/ InspectErr \/ Map \/ MapErr \/ MapOrElse
    \/ ToAsync

Spec == Init /\ [][Next]_vars

\* The factories toResult and resultify on their own.
NextFactory == ToResult \/ Resultify

SpecFactory == Init /\ [][NextFactory]_vars

\* thrownUnknownToBaseError(x) called by itself, on the values of the inputs and
\* on what earlier calls returned
Normalize ==
    /\ nCalls < MaxNormalizeCalls
    /\ \E x \in Values \cup {Obj(i) : i \in 1..Len(heap)} :
          Step("thrownUnknownToBaseError", 0, Args(Undef, <<>>, NoFn, NoFn, <<x>>),
               thrownUnknownToBaseError(CurM, x))
    /\ UNCHANGED asyncs

NextNormalize == Normalize

SpecNormalize == Init /\ [][NextNormalize]_vars

(***************************************************************************)
(* The AsyncResult API as a state machine.  An action is one call of the   *)
(* API, the caller's code settling one of its promises, or one microtask.  *)
(* asyncs records every call: the promise it reads (src) and the promise   *)
(* it returns, or that the AsyncResult it returns holds (out).             *)
(***************************************************************************)
AsyncValues == {Num(5), Obj(1)}

\* the heap starts with the one object of AsyncValues
InitAsync ==
    /\ heap = SubSeq(BaseHeap, 1, 1)
    /\ proms = <<>>
    /\ jobs = <<>>
    /\ calls = <<>>
    /\ asyncs = <<>>
    /\ last = NoLast
    /\ nCalls = 0

AsyncFns == {Fn("typeOf", Undef), Fn("throws", Num(1)), Fn("async", Undef)}

AsyncFallbacks == {Fn("typeOf", Undef), Fn("async", Undef)}

AsyncErrMappers == {NoFn, Fn("typeOf", Undef), Fn("async", Undef)}

\* the AsyncResults the caller has: those a call returned
AsyncResults == {asyncs[i].ar : i \in 1..Len(asyncs)} \ {0}

\* The caller makes one AsyncResult with a constructor or a factory, and then
\* works with it and with what it derives from it.
MayMakeRoot == asyncs = <<>>

\* the promise an outcome carries: the returned promise, or the promise of the
\* returned AsyncResult; 0 when the call threw
OutPromise(o) ==
    IF o.tag = "throw" THEN 0
    ELSE IF o.val.k = "promise" THEN o.val.n
    ELSE o.m.heap[o.val.n].val.n

\* the API call op(a) reading promise src ran with outcome o
ACall(op, a, src, o) ==
    /\ Step(op, 0, a, o)
    /\ asyncs' = Append(asyncs, [op |-> op, a |-> a, src |-> src,
                                 out |-> OutPromise(o), site |-> nCalls + 1,
                                 ar |-> IF o.tag = "return" /\ o.val.k = "object"
                                        THEN o.val.n ELSE 0])

AStep(op, a, src, o) ==
    /\ nCalls < MaxAsyncCalls
    /\ ACall(op, a, src, o)

\* AsyncResult.fromResult(Ok(v)) and AsyncResult.fromResult(Err(v))
FromResult ==
    /\ MayMakeRoot
    /\ \E cls \in {"OK", "ERR"}, v \in AsyncValues :
        LET r == IF cls = "OK" THEN Ok(CurM, v) ELSE Err(CurM, v)
        IN AStep("fromResult", Args(Undef, <<>>, NoFn, NoFn, <<r.val>>), 0,
                 AsyncResult_fromResult(r.m, r.val))

\* toAsyncResult(p), which is AsyncResult.fromPromise(p); p a promise of the caller
FromPromise ==
    /\ MayMakeRoot
    /\ LET p == Prom(NextPromId(CurM))
           m1 == NewProm(CurM, PromObj("pending", Undef, "value"))
       IN AStep("fromPromise", Args(Undef, <<>>, NoFn, NoFn, <<p>>), p.n,
                toAsyncResult(m1, p))

\* AsyncResult.fromResultPromise(p), p a promise of a Result of the caller
FromResultPromise ==
    /\ MayMakeRoot
    /\ LET p == Prom(NextPromId(CurM))
           m1 == NewProm(CurM, PromObj("pending", Undef, "result"))
       IN AStep("fromResultPromise", Args(Undef, <<>>, NoFn, NoFn, <<p>>), p.n,
                AsyncResult_fromResultPromise(m1, p))

\* asyncResultify(fn, mapErr)(...params): fn returns a promise, or throws
AsyncResultify ==
    /\ MayMakeRoot
    /\ \E fn \in {Fn("async", Undef)} \cup {Fn("throws", v) : v \in AsyncValues},
       mapErr \in AsyncErrMappers :
        LET o == asyncResultify(CurM, fn, mapErr, <<>>)
        IN AStep("asyncResultify", Args(Undef, <<>>, fn, mapErr, <<>>),
                 IF o.tag = "throw" THEN 0 ELSE NextPromId(CurM), o)

\* createAsyncResult(fn)(...params): fn returns a promise of a Result, or throws
CreateAsyncResult ==
    /\ MayMakeRoot
    /\ \E fn \in {Fn("asyncResult", Undef), Fn("throws", Num(5))} :
        LET o == createAsyncResult(CurM, fn, <<>>)
        IN AStep("createAsyncResult", Args(Undef, <<>>, fn, NoFn, <<>>),
                 IF o.tag = "throw" THEN 0 ELSE NextPromId(CurM), o)

\* a query method of an AsyncResult
AQuery(op, a) ==
    \E ar \in AsyncResults :
        AStep(op, a, heap[ar].val.n, AsyncResult_query(CurM, ar, op, a))

AUnwrap == AQuery("unwrap", NoArgs)
AUnwrapErr == AQuery("unwrapErr", NoArgs)
AUnwrapOr == \E alt \in {Num(0)} : AQuery("unwrapOr", Args(alt, <<>>, NoFn, NoFn, <<>>))
AUnwrapOrElse ==
    \E f \in AsyncFns : AQuery("unwrapOrElse", Args(Undef, <<>>, f, NoFn, <<>>))
AExpect == \E msg \in {sMsgM} : AQuery("expect", Args(Undef, msg, NoFn, NoFn, <<>>))
AExpectErr == \E msg \in {sMsgM} : AQuery("expectErr", Args(Undef, msg, NoFn, NoFn, <<>>))
AIsOk == AQuery("isOk", NoArgs)
AIsErr == AQuery("isErr", NoArgs)
AGetOk == AQuery("ok", NoArgs)
AGetErr == AQuery("err", NoArgs)

\* inspect, inspectErr, map, mapOrElse and mapErr of an AsyncResult
ACombine(op, a) ==
    \E ar \in AsyncResults :
        AStep(op, a, heap[ar].val.n, AsyncResult_thenInternal(CurM, ar, op, a))

AInspect == \E f \in AsyncFns : ACombine("inspect", Args(Undef, <<>>, f, NoFn, <<>>))
AInspectErr == \E f \in AsyncFns : ACombine("inspectErr", Args(Undef, <<>>, f, NoFn, <<>>))
AMap == \E f \in AsyncFns : ACombine("map", Args(Undef, <<>>, f, NoFn, <<>>))
AMapErr == \E f \in AsyncFns : ACombine("mapErr", Args(Undef, <<>>, f, NoFn, <<>>))
AMapOrElse ==
    \E f \in AsyncFns, g \in AsyncFallbacks :
        ACombine("mapOrElse", Args(Undef, <<>>, f, g, <<>>))

\* the machine is now m; no API call was made
Continue(m) ==
    /\ heap' = m.heap
    /\ proms' = m.proms
    /\ jobs' = m.jobs
    /\ calls' = m.calls
    /\ UNCHANGED <<asyncs, last, nCalls>>

\* The caller's code makes API calls and settles its promises; the engine runs
\* the microtasks one at a time, in the order they were queued.  The caller's
\* own continuations (what follows an await of the caller) are microtasks of the
\* same queue, so an API call or a settlement of the caller may come between any
\* two microtasks of the library.

\* the caller's code settles one of its pending promises
SettleExt ==
    \E p \in 1..Len(proms) :
        /\ proms[p].ext # "" /\ proms[p].state = "pending"
        /\ \E v \in AsyncValues :
              \/ Continue(Settle(CurM, p, "rejected", v))
              \/ proms[p].ext = "value" /\ Continue(Settle(CurM, p, "fulfilled", v))
              \/ /\ proms[p].ext = "result"
                 /\ \E cls \in {"OK", "ERR"} :
                       LET r == IF cls = "OK" THEN Ok(CurM, v) ELSE Err(CurM, v)
                       IN Continue(Settle(r.m, p, "fulfilled", r.val))

\* the engine runs the microtask at the head of the queue
RunJob ==
    /\ jobs # <<>>
    /\ Continue(RunJobOn([CurM EXCEPT !.jobs = Tail(@)], Head(jobs)))

NextAsync ==
    \/ FromResult \/ FromPromise \/ FromResultPromise
    \/ AsyncResultify \/ CreateAsyncResult
    \/ AUnwrap \/ AUnwrapErr \/ AUnwrapOr \/ AUnwrapOrElse
    \/ AExpect \/ AExpectErr
    \/ AIsOk \/ AIsErr \/ AGetOk \/ AGetErr
    \/ AInspect \/ AInspectErr \/ AMap \/ AMapErr \/ AMapOrElse
    \/ SettleExt \/ RunJob

SpecAsync == InitAsync /\ [][NextAsync]_vars

\* mapOrElse of Result and of AsyncResult side by side
NextMapOrElse ==
    \/ CallOk \/ CallErr \/ MapOrElse
    \/ FromResult \/ AMapOrElse
    \/ SettleExt \/ RunJob

SpecMapOrElse == Init /\ [][NextMapOrElse]_vars

\* Chains: an AsyncResult, the AsyncResults derived from it and from those, and
\* their queries.
ChainFns == {Fn("typeOf", Undef), Fn("throws", Num(1)), Fn("async", Undef)}

\* inspect, inspectErr, map, mapErr or mapOrElse of any AsyncResult made so far
ChainCombine ==
    /\ nCalls < MaxChainCalls
    /\ \E ar \in AsyncResults, f \in ChainFns :
        \E op \in {"inspect", "inspectErr", "map", "mapErr", "mapOrElse"} :
        \E g \in IF op = "mapOrElse" THEN ChainFns ELSE {NoFn} :
            LET a == Args(Undef, <<>>, f, g, <<>>)
            IN ACall(op, a, heap[ar].val.n, AsyncResult_thenInternal(CurM, ar, op, a))

\* unwrap, unwrapOr, unwrapOrElse, isOk or ok of any AsyncResult made so far
ChainQuery ==
    /\ nCalls < MaxChainCalls
    /\ \E ar \in AsyncResults :
        \E op \in {"unwrap", "unwrapOr", "unwrapOrElse", "isOk", "ok"} :
        \E f \in IF op = "unwrapOrElse" THEN ChainFns ELSE {NoFn} :
            LET a == Args(IF op = "unwrapOr" THEN Num(0) ELSE Undef, <<>>, f, NoFn, <<>>)
            IN ACall(op, a, heap[ar].val.n, AsyncResult_query(CurM, ar, op, a))

NextChain ==
    \/ FromResult \/ FromResultPromise \/ FromPromise
    \/ ChainCombine \/ ChainQuery
    \/ SettleExt \/ RunJob

SpecChain == InitAsync /\ [][NextChain]_vars

\* Chains below a promise of the caller, with the engine always running the
\* microtasks that are due and the caller settling every promise it made
LiveFns == {Fn("typeOf", Undef), Fn("async", Undef)}

\* map, mapErr or inspect of any AsyncResult made so far, with a function that returns
LiveCombine ==
    /\ nCalls < MaxChainCalls
    /\ \E ar \in AsyncResults, f \in LiveFns, op \in {"map", "mapErr", "inspect"} :
            LET a == Args(Undef, <<>>, f, NoFn, <<>>)
            IN ACall(op, a, heap[ar].val.n, AsyncResult_thenInternal(CurM, ar, op, a))

\* unwrapOr or unwrapOrElse of any AsyncResult made so far
LiveQuery ==
    /\ nCalls < MaxChainCalls
    /\ \E ar \in AsyncResults, op \in {"unwrapOr", "unwrapOrElse"} :
            LET a == Args(IF op = "unwrapOr" THEN Num(0) ELSE Undef, <<>>,
                          IF op = "unwrapOr" THEN NoFn ELSE Fn("async", Undef), NoFn, <<>>)
            IN ACall(op, a, heap[ar].val.n, AsyncResult_query(CurM, ar, op, a))

NextLive ==
    \/ FromResultPromise
    \/ LiveCombine \/ LiveQuery
    \/ SettleExt \/ RunJob

SpecLive == InitAsync /\ [][NextLive]_vars /\ WF_vars(SettleExt) /\ WF_vars(RunJob)

\* Chains that start at a function made by asyncResultify or createAsyncResult,
\* or at a Result
NextWrapped ==
    \/ AsyncResultify \/ CreateAsyncResult \/ FromResult
    \/ LiveCombine \/ LiveQuery
    \/ SettleExt \/ RunJob

SpecWrapped == InitAsync /\ [][NextWrapped]_vars

\* toAsync of a Result and AsyncResult.fromResult side by side
NextRoundTrip == CallOk \/ CallErr \/ ToAsync \/ FromResult

SpecRoundTrip == Init /\ [][NextRoundTrip]_vars

(***************************************************************************)
(* The claims.  last describes the most recent call: the receiver, the     *)
(* arguments, whether it returned or threw and what, and how long the heap *)
(* and the log of calls were before it.                                    *)
(***************************************************************************)
RecvCls == IF last.recv = 0 THEN "" ELSE heap[last.recv].cls
Held == heap[last.recv].val
Returned(v) == last.tag = "return" /\ last.val = v

\* the functions the last call invoked, in order
NewCalls == SelectSeq(calls, LAMBDA c : c.site = nCalls)

\* the last call returned a new Result of class cls holding v
ReturnedResult(cls, v) ==
    /\ last.tag = "return"
    /\ last.val.k = "object"
    /\ heap[last.val.n].cls = cls
    /\ heap[last.val.n].val = v

\* the last call threw a native Error
ThrewError == last.tag = "throw" /\ last.val.k = "object" /\ heap[last.val.n].cls = "Error"

\* C1: Ok(v) holds v and Err(e) holds e; on a success unwrap, ok and unwrapOr
\* return the held value and err returns undefined; on a failure unwrapErr and
\* err return the held error, unwrapOr returns the alternative and ok returns
\* undefined; isOk is true exactly on a success, isErr exactly on a failure, so
\* exactly one of them holds of every Result.
C1_Accessors ==
    /\ last.op = "Ok" => ReturnedResult("OK", last.a.params[1])
    /\ last.op = "Err" => ReturnedResult("ERR", last.a.params[1])
    /\ (last.op \in {"unwrap", "ok", "unwrapOr"} /\ RecvCls = "OK") => Returned(Held)
    /\ (last.op \in {"unwrapErr", "err"} /\ RecvCls = "ERR") => Returned(Held)
    /\ (last.op = "unwrapOr" /\ RecvCls = "ERR") => Returned(last.a.alt)
    /\ (last.op = "ok" /\ RecvCls = "ERR") => Returned(Undef)
    /\ (last.op = "err" /\ RecvCls = "OK") => Returned(Undef)
    /\ last.op = "isOk" => Returned(Bool(RecvCls = "OK"))
    /\ last.op = "isErr" => Returned(Bool(RecvCls = "ERR"))
    /\ \A r \in Results :
          LET ok == ResultOp(CurM, r, "isOk", NoArgs).val
              err == ResultOp(CurM, r, "isErr", NoArgs).val
          IN {ok, err} = {Bool(TRUE), Bool(FALSE)}

\* a failure whose unwrapOr returned the alternative, which is not what it holds
C1_Witness ==
    /\ last.op = "unwrapOr" /\ RecvCls = "ERR"
    /\ Returned(last.a.alt) /\ last.a.alt # Held

\* C2: map on a failure, mapErr on a success and unwrapOrElse on a success invoke
\* no function and keep the variant and the payload; on the matching variant the
\* function is invoked exactly once, with the held payload, and what it returns
\* is what the new Result holds (map, mapErr) or what is returned (unwrapOrElse).
C2_CallbackSkip ==
    /\ (last.op = "map" /\ RecvCls = "ERR") =>
          NewCalls = <<>> /\ ReturnedResult("ERR", Held)
    /\ (last.op = "mapErr" /\ RecvCls = "OK") =>
          NewCalls = <<>> /\ ReturnedResult("OK", Held)
    /\ (last.op = "unwrapOrElse" /\ RecvCls = "OK") =>
          NewCalls = <<>> /\ Returned(Held)
    /\ (\/ last.op \in {"mapErr", "unwrapOrElse"} /\ RecvCls = "ERR"
        \/ last.op = "map" /\ RecvCls = "OK") =>
          /\ Len(NewCalls) = 1
          /\ NewCalls[1].fn = last.a.cb
          /\ NewCalls[1].args = <<Held>>
          /\ NewCalls[1].tag = "return" =>
                CASE last.op = "map" -> ReturnedResult("OK", NewCalls[1].ret)
                  [] last.op = "mapErr" -> ReturnedResult("ERR", NewCalls[1].ret)
                  [] OTHER -> Returned(NewCalls[1].ret)

\* map on a failure was given a function that would have thrown, and returned
C2_Witness ==
    /\ last.op = "map" /\ RecvCls = "ERR" /\ last.a.cb.name = "throws"
    /\ last.tag = "return"

\* the head line, the newline and the indent that start the message of ERR's errors
ErrHead(msg) == msg \o sNL \o origErrIndent

\* C4: on a failure unwrap and expect(msg) raise an Error whose message is the
\* head line ("Tried to unwrap ..." for unwrap, msg for expect), a newline and an
\* indented rendering of the held error; on a success expect returns the held
\* value.
C4_UnwrapExpectRaise ==
    /\ StartsWith(sUnwrapHead, sTriedToUnwrap)
    /\ (last.op \in {"unwrap", "expect"} /\ RecvCls = "ERR") =>
          LET head == ErrHead(IF last.op = "unwrap" THEN sUnwrapHead ELSE last.a.msg)
          IN /\ ThrewError
             /\ heap[last.val.n].name = sError
             /\ StartsWith(heap[last.val.n].message, head)
             /\ Len(heap[last.val.n].message) > Len(head)
             /\ Held.k = "number" =>
                   Contains(SubSeq(heap[last.val.n].message, Len(head) + 1,
                                   Len(heap[last.val.n].message)),
                            NumToString(Held.n))
    /\ (last.op = "expect" /\ RecvCls = "OK") => Returned(Held)

\* C5: on a success unwrapErr and expectErr(msg) raise, expectErr an Error whose
\* message is msg; on a failure both return the held error.
C5_UnwrapErrExpectErr ==
    /\ (last.op \in {"unwrapErr", "expectErr"} /\ RecvCls = "OK") => ThrewError
    /\ (last.op = "expectErr" /\ RecvCls = "OK") =>
          heap[last.val.n].message = last.a.msg
    /\ (last.op \in {"unwrapErr", "expectErr"} /\ RecvCls = "ERR") => Returned(Held)

\* expectErr('Should fail') on a success threw
C5_Witness ==
    /\ last.op = "expectErr" /\ RecvCls = "OK" /\ last.tag = "throw"
    /\ last.a.msg = sMsgShouldFail

\* what thrownUnknownToBaseError(t) is in the heap as it is now
Normalized(t) == thrownUnknownToBaseError(CurM, t)

\* v is thrownUnknownToBaseError(t): t itself where t passes, and otherwise a
\* BaseError wrapping t
IsNormalized(v, t) ==
    IF Normalized(t).val = t THEN v = t
    ELSE /\ v.k = "object"
         /\ heap[v.n] = Normalized(t).m.heap[Normalized(t).val.n]
         /\ heap[v.n].cls = "BaseError" /\ heap[v.n].val = t

\* C9 as stated: the function made by resultify calls fn with the arguments it
\* was given; if fn returns v the result is Ok(v); if fn throws t nothing is
\* thrown and the result is Err(mapErr(normalize(t))), or Err(normalize(t)) with
\* no mapErr.
C9_ResultifyNeverThrows ==
    last.op = "resultify" =>
        /\ Len(NewCalls) >= 1
        /\ NewCalls[1].fn = last.a.cb /\ NewCalls[1].args = last.a.params
        /\ NewCalls[1].tag = "return" =>
              Len(NewCalls) = 1 /\ ReturnedResult("OK", NewCalls[1].ret)
        /\ (NewCalls[1].tag = "throw" /\ last.a.cb2 = NoFn) =>
              /\ Len(NewCalls) = 1 /\ last.tag = "return"
              /\ heap[last.val.n].cls = "ERR"
              /\ IsNormalized(heap[last.val.n].val, NewCalls[1].ret)
        /\ (NewCalls[1].tag = "throw" /\ last.a.cb2 # NoFn) =>
              /\ Len(NewCalls) = 2
              /\ NewCalls[2].fn = last.a.cb2
              /\ Len(NewCalls[2].args) = 1
              /\ IsNormalized(NewCalls[2].args[1], NewCalls[1].ret)
              /\ last.tag = "return"
              /\ ReturnedResult("ERR", NewCalls[2].ret)

\* C9 amended: the function made by resultify calls fn with the arguments it was
\* given; if fn returns v the result is Ok(v); if fn throws t and there is no
\* mapErr the result is Err(normalize(t)); if fn throws t and there is a mapErr,
\* mapErr is called with normalize(t), the result is Err of what it returns, and
\* when mapErr throws, what it threw is what the call throws; the call throws in
\* no other case.
C9_Resultify ==
    last.op = "resultify" =>
        /\ Len(NewCalls) >= 1
        /\ NewCalls[1].fn = last.a.cb /\ NewCalls[1].args = last.a.params
        /\ NewCalls[1].tag = "return" =>
              Len(NewCalls) = 1 /\ ReturnedResult("OK", NewCalls[1].ret)
        /\ (NewCalls[1].tag = "throw" /\ last.a.cb2 = NoFn) =>
              /\ Len(NewCalls) = 1 /\ last.tag = "return"
              /\ heap[last.val.n].cls = "ERR"
              /\ IsNormalized(heap[last.val.n].val, NewCalls[1].ret)
        /\ (NewCalls[1].tag = "throw" /\ last.a.cb2 # NoFn) =>
              /\ Len(NewCalls) = 2
              /\ NewCalls[2].fn = last.a.cb2
              /\ Len(NewCalls[2].args) = 1
              /\ IsNormalized(NewCalls[2].args[1], NewCalls[1].ret)
              /\ NewCalls[2].tag = "return" => ReturnedResult("ERR", NewCalls[2].ret)
              /\ NewCalls[2].tag = "throw" =>
                    last.tag = "throw" /\ last.val = NewCalls[2].ret
        /\ last.tag = "throw" =>
              /\ Len(NewCalls) = 2 /\ NewCalls[1].tag = "throw"
              /\ NewCalls[2].fn = last.a.cb2 /\ NewCalls[2].tag = "throw"

\* resultify(() => { throw 5 }, () => { throw 1 })() called mapErr with a
\* BaseError whose origValue is 5 and threw 1
C9_Witness ==
    /\ last.op = "resultify" /\ last.a.cb = Fn("throws", Num(5))
    /\ last.a.cb2 = Fn("throws", Num(1))
    /\ Len(NewCalls) = 2 /\ heap[NewCalls[2].args[1].n].val = Num(5)
    /\ last.tag = "throw" /\ last.val = Num(1)

(***************************************************************************)
(* Claims about AsyncResult.  An entry e of asyncs is a call; the promise  *)
(* it read is src and the promise it returned is out.                      *)
(***************************************************************************)
Settled(p) == proms[p].state # "pending"
Fulfilled(p) == proms[p].state = "fulfilled"
Rejected(p) == proms[p].state = "rejected"

\* nothing is left to run
Quiet == jobs = <<>>

\* the invocations of caller-supplied functions made for the call e
CallsOf(e) == SelectSeq(calls, LAMBDA c : c.site = e.site)

\* the Result the receiver of e settled to (with the receiver's promise fulfilled)
SrcResult(e) == proms[e.src].value.n

\* promise p is fulfilled with a Result of class cls holding v
FulfilledWith(p, cls, v) ==
    /\ Fulfilled(p)
    /\ proms[p].value.k = "object"
    /\ heap[proms[p].value.n].cls = cls
    /\ heap[proms[p].value.n].val = v

\* x returned by a function and awaited: x, or what the promise x fulfilled with
IsAwaitable(x) == x.k # "promise" \/ Fulfilled(x.n)
Awaited(x) == IF x.k = "promise" THEN proms[x.n].value ELSE x

QueryOps ==
    {"unwrap", "unwrapErr", "unwrapOr", "unwrapOrElse", "expect", "expectErr",
     "isOk", "isErr", "ok", "err"}

\* C3: mapOrElse always yields a success.  Result: on Ok(v) only fn is invoked and
\* the result is Ok(fn(v)); on Err(e) only fallback is invoked and the result is
\* Ok(fallback(e)).  AsyncResult: the same of the Result its promise settled
\* to, with what the function returned awaited.
C3_MapOrElse ==
    /\ last.op = "mapOrElse" /\ last.recv # 0 =>
          /\ Len(NewCalls) = 1
          /\ NewCalls[1].fn = (IF RecvCls = "OK" THEN last.a.cb ELSE last.a.cb2)
          /\ NewCalls[1].args = <<Held>>
          /\ NewCalls[1].tag = "return" => ReturnedResult("OK", NewCalls[1].ret)
    /\ \A i \in 1..Len(asyncs) :
          LET e == asyncs[i]
              cs == CallsOf(e)
          IN (e.op = "mapOrElse" /\ Fulfilled(e.src)) =>
                /\ Len(cs) <= 1
                /\ \A k \in 1..Len(cs) :
                      /\ cs[k].fn = (IF heap[SrcResult(e)].cls = "OK"
                                     THEN e.a.cb ELSE e.a.cb2)
                      /\ cs[k].args = <<heap[SrcResult(e)].val>>
                /\ Fulfilled(e.out) =>
                      /\ Len(cs) = 1 /\ cs[1].tag = "return" /\ IsAwaitable(cs[1].ret)
                      /\ FulfilledWith(e.out, "OK", Awaited(cs[1].ret))
                /\ (Quiet /\ Len(cs) = 1 /\ cs[1].tag = "return" /\ IsAwaitable(cs[1].ret))
                      => Fulfilled(e.out)

\* an AsyncResult of a failure: mapOrElse settled to a success holding what the
\* fallback's promise fulfilled with
C3_Witness ==
    \E i \in 1..Len(asyncs) :
        LET e == asyncs[i]
        IN /\ e.op = "mapOrElse" /\ Fulfilled(e.src)
           /\ heap[SrcResult(e)].cls = "ERR"
           /\ e.a.cb2.name = "async"
           /\ Fulfilled(e.out) /\ heap[proms[e.out].value.n].cls = "OK"

\* C6: the promise of AsyncResult.fromPromise(p) (and of toAsyncResult(p)) never
\* rejects; if p fulfils with v it settles to Ok(v); if p rejects with r it
\* settles to Err(normalize(r)), and that is r itself when r is an Error.
C6_FromPromise ==
    \A i \in 1..Len(asyncs) :
        LET e == asyncs[i]
            r == proms[e.src].value
        IN e.op = "fromPromise" =>
              /\ ~Rejected(e.out)
              /\ Settled(e.out) => Settled(e.src)
              /\ (Settled(e.out) /\ Fulfilled(e.src)) => FulfilledWith(e.out, "OK", r)
              /\ (Settled(e.out) /\ Rejected(e.src)) =>
                    /\ Fulfilled(e.out)
                    /\ heap[proms[e.out].value.n].cls = "ERR"
                    /\ IsNormalized(heap[proms[e.out].value.n].val, r)
                    /\ InstanceOfError(heap, r) => heap[proms[e.out].value.n].val = r
              /\ (Quiet /\ Settled(e.src)) => Settled(e.out)

\* p rejected with an Error, and the AsyncResult settled to a failure holding it
C6_Witness ==
    \E i \in 1..Len(asyncs) :
        LET e == asyncs[i]
        IN /\ e.op = "fromPromise" /\ Rejected(e.src)
           /\ InstanceOfError(heap, proms[e.src].value)
           /\ FulfilledWith(e.out, "ERR", proms[e.src].value)

\* the outcome of the synchronous operation of the call e on the Result its
\* receiver settled to
SyncOutcome(e) == ResultOp(CurM, SrcResult(e), e.op, e.a)

\* v1 in heap h1 and v2 in heap h2 are the same value, or errors alike
SameThrown(h1, v1, h2, v2) ==
    IF v1.k = "object" /\ v2.k = "object"
    THEN /\ h1[v1.n].cls = h2[v2.n].cls
         /\ h1[v1.n].name = h2[v2.n].name
         /\ h1[v1.n].message = h2[v2.n].message
    ELSE v1 = v2

\* the promise of the query e is rejected as the synchronous operation raises
RejectedAsSync(e) ==
    /\ Rejected(e.out)
    /\ SameThrown(SyncOutcome(e).m.heap, SyncOutcome(e).val, heap, proms[e.out].value)

\* the promise of the query e settled as a promise that a function called for e
\* returned
FollowsReturnedPromise(e) ==
    \E k \in 1..Len(CallsOf(e)) :
        LET c == CallsOf(e)[k]
        IN /\ c.tag = "return" /\ c.ret.k = "promise"
           /\ proms[c.ret.n].state = proms[e.out].state
           /\ proms[c.ret.n].value = proms[e.out].value

\* C7 as stated: the promise a query returns settles as the synchronous operation
\* on the settled Result ends: fulfilled with the value it returns, rejected
\* with the error it raises.
C7_QueryAsSync ==
    \A i \in 1..Len(asyncs) :
        LET e == asyncs[i]
        IN (e.op \in QueryOps /\ Fulfilled(e.src) /\ Settled(e.out)) =>
              IF SyncOutcome(e).tag = "return"
              THEN Fulfilled(e.out) /\ proms[e.out].value = SyncOutcome(e).val
              ELSE RejectedAsSync(e)

\* C7 amended: as stated where the synchronous operation raises or returns a
\* value that is not a promise; where it returns a promise (unwrapOrElse on a
\* failure with a function that returns one) the query's promise follows that
\* promise: it settles as it settles, and not before.
C7_QueryAsSyncOrFollows ==
    \A i \in 1..Len(asyncs) :
        LET e == asyncs[i]
        IN (e.op \in QueryOps /\ Fulfilled(e.src)) =>
              /\ Settled(e.out) =>
                    IF SyncOutcome(e).tag = "throw" THEN RejectedAsSync(e)
                    ELSE IF SyncOutcome(e).val.k # "promise"
                    THEN Fulfilled(e.out) /\ proms[e.out].value = SyncOutcome(e).val
                    ELSE FollowsReturnedPromise(e)
              /\ (Quiet /\ ~Settled(e.out)) =>
                    /\ SyncOutcome(e).tag = "return"
                    /\ SyncOutcome(e).val.k = "promise"
                    /\ \E k \in 1..Len(CallsOf(e)) :
                          /\ CallsOf(e)[k].ret.k = "promise"
                          /\ ~Settled(CallsOf(e)[k].ret.n)

\* unwrapOrElse on a failure with a function that returned a promise: the query's
\* promise is fulfilled with what that promise fulfilled with
C7_Witness ==
    \E i \in 1..Len(asyncs) :
        LET e == asyncs[i]
        IN /\ e.op = "unwrapOrElse" /\ Fulfilled(e.src)
           /\ heap[SrcResult(e)].cls = "ERR"
           /\ e.a.cb.name = "async"
           /\ Fulfilled(e.out) /\ FollowsReturnedPromise(e)

RaisingOps == {"unwrap", "unwrapErr", "expect", "expectErr"}

\* C8 as stated: a query's promise rejects only for unwrap, unwrapErr, expect and
\* expectErr, and only when the synchronous operation raises; the promises of
\* unwrapOr, unwrapOrElse, isOk, isErr, ok and err never reject.
C8_OnlyAssertionsReject ==
    \A i \in 1..Len(asyncs) :
        LET e == asyncs[i]
        IN (e.op \in QueryOps /\ Fulfilled(e.src) /\ Rejected(e.out)) =>
              e.op \in RaisingOps /\ SyncOutcome(e).tag = "throw"

\* the function called for unwrapOrElse threw, or the promise it returned rejected
FactoryFailed(e) ==
    \E k \in 1..Len(CallsOf(e)) :
        LET c == CallsOf(e)[k]
        IN \/ c.tag = "throw"
           \/ c.tag = "return" /\ c.ret.k = "promise" /\ Rejected(c.ret.n)

\* C8 amended: a query's promise rejects only for unwrap, unwrapErr, expect and
\* expectErr when the synchronous operation raises, and for unwrapOrElse on a
\* failure when the function throws or returns a promise that rejects; the
\* promises of unwrapOr, isOk, isErr, ok and err fulfil.
C8_OnlyAssertionsOrFactoryReject ==
    \A i \in 1..Len(asyncs) :
        LET e == asyncs[i]
        IN (e.op \in QueryOps /\ Fulfilled(e.src)) =>
              /\ Rejected(e.out) =>
                    \/ e.op \in RaisingOps /\ SyncOutcome(e).tag = "throw"
                    \/ /\ e.op = "unwrapOrElse"
                       /\ heap[SrcResult(e)].cls = "ERR"
                       /\ FactoryFailed(e)
              /\ (Quiet /\ e.op \in {"unwrapOr", "isOk", "isErr", "ok", "err"}) =>
                    Fulfilled(e.out)
              /\ (Quiet /\ e.op = "unwrapOrElse" /\ heap[SrcResult(e)].cls = "OK") =>
                    Fulfilled(e.out)

\* unwrapOrElse on a failure with a function whose promise rejected: the query's
\* promise is rejected
C8_Witness ==
    \E i \in 1..Len(asyncs) :
        LET e == asyncs[i]
        IN /\ e.op = "unwrapOrElse" /\ Fulfilled(e.src)
           /\ e.a.cb.name = "async"
           /\ Rejected(e.out) /\ FactoryFailed(e)

\* C10: the function made by asyncResultify never throws; if fn throws t, or the
\* promise fn returns rejects with t, the AsyncResult settles to
\* Err(mapErr(normalize(t))) with mapErr's result awaited, or to
\* Err(normalize(t)) with no mapErr.
C10_AsyncResultify ==
    \A i \in 1..Len(asyncs) :
        LET e == asyncs[i]
            cs == CallsOf(e)
        IN e.op = "asyncResultify" =>
              /\ e.ar # 0
              /\ (e.src # 0 /\ Rejected(e.src) /\ Quiet) =>
                    IF e.a.cb2 = NoFn
                    THEN /\ Fulfilled(e.out)
                         /\ heap[proms[e.out].value.n].cls = "ERR"
                         /\ IsNormalized(heap[proms[e.out].value.n].val,
                                         proms[e.src].value)
                    ELSE /\ Len(cs) = 2
                         /\ cs[2].fn = e.a.cb2
                         /\ Len(cs[2].args) = 1
                         /\ IsNormalized(cs[2].args[1], proms[e.src].value)
                         /\ IsAwaitable(cs[2].ret) =>
                               FulfilledWith(e.out, "ERR", Awaited(cs[2].ret))

\* C11: toResult(fn) invokes fn exactly once, with no argument, and never throws;
\* if fn returns v the result is Ok(v); if fn throws t the result is Err(t),
\* holding t itself: no other object is made.
C11_ToResult ==
    last.op = "toResult" =>
        /\ Len(NewCalls) = 1
        /\ NewCalls[1].fn = last.a.cb /\ NewCalls[1].args = <<>>
        /\ last.tag = "return"
        /\ NewCalls[1].tag = "return" => ReturnedResult("OK", NewCalls[1].ret)
        /\ NewCalls[1].tag = "throw" => ReturnedResult("ERR", NewCalls[1].ret)
        /\ Len(heap) = last.heapBefore + 1

\* toResult(() => { throw 5 }) is a failure holding 5, not an error wrapping it
C11_Witness ==
    /\ last.op = "toResult" /\ last.a.cb = Fn("throws", Num(5))
    /\ ReturnedResult("ERR", Num(5))

\* the argument of the last call of thrownUnknownToBaseError
NormArg == last.a.params[1]

\* the last call of thrownUnknownToBaseError returned a new BaseError
Wrapped ==
    /\ last.op = "thrownUnknownToBaseError" /\ last.tag = "return"
    /\ last.val.k = "object" /\ last.val.n > last.heapBefore
    /\ heap[last.val.n].cls = "BaseError"

\* x is a native Error, or an object with name and message fields and a string
\* conversion that is not the default one of objects
IsProperError(x) ==
    /\ x.k = "object"
    /\ \/ heap[x.n].cls = "Error"
       \/ heap[x.n].cls \in {"ErrorLike", "BaseError"}

\* C12: thrownUnknownToBaseError(x) returns x itself when x is a native Error or an
\* object with name and message and a string conversion other than the default
\* one, and makes nothing; in every other case it returns a new BaseError
\* wrapping x.
C12_NormalizeIdentity ==
    last.op = "thrownUnknownToBaseError" =>
        /\ last.tag = "return"
        /\ IsProperError(NormArg) =>
              last.val = NormArg /\ Len(heap) = last.heapBefore
        /\ ~IsProperError(NormArg) =>
              /\ Wrapped /\ last.val # NormArg
              /\ heap[last.val.n].val = NormArg
              /\ Len(heap) = last.heapBefore + 1

\* the kind of x in the message of a BaseError
KindOf(x) ==
    CASE x.k = "object" /\ heap[x.n].cls = "Array" -> sArray
      [] x.k \in {"object", "null"} -> sObject
      [] x.k = "number" -> sNumber
      [] x.k = "string" -> sString
      [] x.k = "boolean" -> sBoolean
      [] OTHER -> sUndefined

\* 'Caught exotic value (<kind>)' for x
ExoticHead(x) == sCaught \o KindOf(x) \o sCloseParen

\* C13: when thrownUnknownToBaseError(x) wraps x, the error has name 'BaseError',
\* origValue x, and a message that begins 'Caught exotic value (<kind>)', <kind>
\* being 'array' for an array and the type name of x otherwise.
C13_WrappedShape ==
    Wrapped =>
        /\ heap[last.val.n].name = sBaseError
        /\ heap[last.val.n].val = NormArg
        /\ StartsWith(heap[last.val.n].message, ExoticHead(NormArg))

\* an array was wrapped, and the message begins 'Caught exotic value (array)'
C13_Witness ==
    /\ Wrapped
    /\ NormArg.k = "object" /\ heap[NormArg.n].cls = "Array"
    /\ StartsWith(heap[last.val.n].message, sCaught \o sArray \o sCloseParen)

\* x has a string conversion of its own: a number, a string, a boolean, an array,
\* an object with its own toString
HasCustomConversion(x) ==
    \/ x.k \in {"number", "string", "boolean"}
    \/ x.k = "object" /\ heap[x.n].cls \in {"Array", "Custom", "ErrorLike", "Error", "BaseError"}

\* x has the default conversion of objects, or none
HasDefaultOrNoConversion(x) ==
    \/ x.k \in {"undefined", "null"}
    \/ x.k = "object" /\ heap[x.n].cls \in {"Object", "NameMsg", "NullProto", "NullProtoNameMsg"}

\* C14: when thrownUnknownToBaseError(x) wraps x, the message is
\* 'Caught exotic value (<kind>)' followed by ': ' and the string conversion of x
\* if x has a string conversion of its own, and exactly
\* 'Caught exotic value (<kind>)' if x has the default conversion or none.
C14_MessageTail ==
    Wrapped =>
        /\ (HasCustomConversion(NormArg) /\ ToStringOf(heap, NormArg).k = "string") =>
              heap[last.val.n].message =
                  ExoticHead(NormArg) \o sColonSp \o ToStringOf(heap, NormArg).s
        /\ HasDefaultOrNoConversion(NormArg) =>
              heap[last.val.n].message = ExoticHead(NormArg)

\* the variant of the Result that op makes of what its function returns
MadeVariant(op) == IF op = "mapErr" THEN "ERR" ELSE "OK"

\* C15: for map, mapErr and mapOrElse of an AsyncResult, when the function
\* returns a promise the derived AsyncResult is not settled while that promise is
\* pending, and it settles to a Result holding what the promise fulfilled with; a
\* value that is not a promise is held as it is.
C15_MapperAwaited ==
    \A i \in 1..Len(asyncs) :
        LET e == asyncs[i]
            cs == CallsOf(e)
        IN (/\ e.op \in {"map", "mapErr", "mapOrElse"}
            /\ Fulfilled(e.src) /\ Len(cs) = 1 /\ cs[1].tag = "return") =>
              IF cs[1].ret.k = "promise"
              THEN /\ ~Settled(cs[1].ret.n) => ~Settled(e.out)
                   /\ Fulfilled(e.out) =>
                         /\ Fulfilled(cs[1].ret.n)
                         /\ FulfilledWith(e.out, MadeVariant(e.op),
                                          proms[cs[1].ret.n].value)
                         /\ heap[proms[e.out].value.n].val.k # "promise"
                   /\ (Quiet /\ Fulfilled(cs[1].ret.n)) => Fulfilled(e.out)
              ELSE /\ Settled(e.out) => FulfilledWith(e.out, MadeVariant(e.op), cs[1].ret)
                   /\ Quiet => Settled(e.out)

\* mapErr with a function that returned a promise: the derived AsyncResult settled
\* to a failure holding what the promise fulfilled with
C15_Witness ==
    \E i \in 1..Len(asyncs) :
        LET e == asyncs[i]
            cs == CallsOf(e)
        IN /\ e.op = "mapErr" /\ Fulfilled(e.src) /\ Len(cs) = 1
           /\ cs[1].ret.k = "promise" /\ Fulfilled(cs[1].ret.n)
           /\ FulfilledWith(e.out, "ERR", proms[cs[1].ret.n].value)

\* C16: map of an AsyncResult settled to a failure, and mapErr of one settled to a
\* success, invoke no function and settle to a Result of the same variant
\* holding the same payload; the error mapper of asyncResultify(fn, mapErr) is
\* not invoked when the promise of fn fulfils, and the AsyncResult settles to a
\* success holding what it fulfilled with.
C16_AsyncMapperSkip ==
    \A i \in 1..Len(asyncs) :
        LET e == asyncs[i]
            cs == CallsOf(e)
        IN /\ (/\ e.op \in {"map", "mapErr"} /\ Fulfilled(e.src)
               /\ heap[SrcResult(e)].cls = (IF e.op = "map" THEN "ERR" ELSE "OK")) =>
                  /\ cs = <<>>
                  /\ ~Rejected(e.out)
                  /\ Settled(e.out) =>
                        FulfilledWith(e.out, heap[SrcResult(e)].cls, heap[SrcResult(e)].val)
                  /\ Quiet => Settled(e.out)
           /\ (e.op = "asyncResultify" /\ e.src # 0 /\ Fulfilled(e.src)) =>
                  /\ Len(cs) = 1 /\ cs[1].fn = e.a.cb
                  /\ ~Rejected(e.out)
                  /\ Settled(e.out) => FulfilledWith(e.out, "OK", proms[e.src].value)
                  /\ Quiet => Settled(e.out)

\* asyncResultify(fn, mapErr)(): the promise of fn fulfilled, mapErr was not
\* invoked and the AsyncResult settled to a success holding the value
C16_Witness ==
    \E i \in 1..Len(asyncs) :
        LET e == asyncs[i]
        IN /\ e.op = "asyncResultify" /\ e.a.cb2 # NoFn
           /\ e.src # 0 /\ Fulfilled(e.src)
           /\ Len(CallsOf(e)) = 1
           /\ FulfilledWith(e.out, "OK", proms[e.src].value)

\* C17: inspect on a success and inspectErr on a failure invoke the function
\* exactly once with the held payload; inspect on a failure and inspectErr on a
\* success invoke nothing; the Result returned has the variant of the receiver
\* and holds the same payload, whatever the function returned.
C17_Inspect ==
    last.op \in {"inspect", "inspectErr"} /\ last.recv # 0 =>
        IF (last.op = "inspect") = (RecvCls = "OK")
        THEN /\ Len(NewCalls) = 1
             /\ NewCalls[1].fn = last.a.cb /\ NewCalls[1].args = <<Held>>
             /\ NewCalls[1].tag = "return" => ReturnedResult(RecvCls, Held)
        ELSE NewCalls = <<>> /\ ReturnedResult(RecvCls, Held)

\* inspect on a success with a function that returned something else: the Result
\* returned holds what the receiver holds
C17_Witness ==
    /\ last.op = "inspect" /\ RecvCls = "OK"
    /\ Len(NewCalls) = 1 /\ NewCalls[1].tag = "return" /\ NewCalls[1].ret # Held
    /\ ReturnedResult("OK", Held)

MappingOps == {"map", "mapErr", "mapOrElse", "inspect", "inspectErr"}

\* C18: map, mapErr, mapOrElse, inspect and inspectErr of a Result, on either
\* variant, return a Result object made by the call, which is not the receiver,
\* and leave the receiver as it was.
C18_NewResult ==
    [][(/\ nCalls' = nCalls + 1
        /\ last'.op \in MappingOps /\ last'.recv # 0 /\ last'.tag = "return") =>
          /\ last'.val.k = "object"
          /\ last'.val.n # last'.recv
          /\ last'.val.n > Len(heap)
          /\ heap'[last'.recv] = heap[last'.recv]]_vars

\* C19: r.toAsync(), and AsyncResult.fromResult(r), is an AsyncResult whose promise
\* is fulfilled with a Result of the variant of r holding what r holds, and is
\* never rejected.
C19_RoundTrip ==
    /\ last.op = "toAsync" =>
          /\ last.tag = "return"
          /\ heap[last.val.n].cls = "AsyncResult"
          /\ FulfilledWith(heap[last.val.n].val.n, RecvCls, Held)
    /\ \A i \in 1..Len(asyncs) :
          LET e == asyncs[i]
              r == e.a.params[1]
          IN e.op = "fromResult" =>
                /\ e.ar # 0 /\ heap[e.ar].val = Prom(e.out)
                /\ FulfilledWith(e.out, heap[r.n].cls, heap[r.n].val)

\* toAsync of a failure: the promise of the AsyncResult is fulfilled with a
\* failure holding the same error
C19_Witness ==
    /\ last.op = "toAsync" /\ RecvCls = "ERR" /\ last.tag = "return"
    /\ FulfilledWith(heap[last.val.n].val.n, "ERR", Held)

SafeOps ==
    {"Ok", "Err", "ok", "err", "isOk", "isErr", "unwrapOr", "unwrapOrElse",
     "map", "mapErr", "mapOrElse"}

\* C20 as stated: Ok, Err, ok, err, isOk, isErr, unwrapOr, unwrapOrElse, map,
\* mapErr and mapOrElse never raise, on either variant.
C20_NeverThrows ==
    last.op \in SafeOps => last.tag = "return"

\* C20 amended: these calls raise nothing of their own: when one raises, it
\* invoked the function it was given, that function threw, and what is raised is
\* what the function threw; the calls that invoke no function return.
C20_ThrowsOnlyWhatFnThrows ==
    last.op \in SafeOps =>
        /\ last.tag = "throw" =>
              /\ Len(NewCalls) = 1 /\ NewCalls[1].tag = "throw"
              /\ last.val = NewCalls[1].ret
              /\ Len(heap) = last.heapBefore
        /\ (NewCalls = <<>> \/ NewCalls[Len(NewCalls)].tag = "return") =>
              last.tag = "return"

\* mapErr on a failure with a function that throws: what is raised is what the
\* function threw
C20_Witness ==
    /\ last.op = "mapErr" /\ RecvCls = "ERR" /\ last.a.cb.name = "throws"
    /\ last.tag = "throw" /\ last.val = last.a.cb.v

\* the call was an assertion that does not hold of the receiver
AssertionPoint ==
    \/ last.op \in {"unwrap", "expect"} /\ RecvCls = "ERR"
    \/ last.op \in {"unwrapErr", "expectErr"} /\ RecvCls = "OK"

\* msg has a line break and the indent, and after them a text, in which the
\* printed form of v stands when v is a primitive
HasRenderingOf(msg, v) ==
    \E i \in 1..Len(msg) :
        /\ i + Len(origErrIndent) < Len(msg)
        /\ SubSeq(msg, i, i + Len(origErrIndent)) = sNL \o origErrIndent
        /\ v.k # "object" =>
              Contains(SubSeq(msg, i + Len(origErrIndent) + 1, Len(msg)),
                       PrimToString(v))

\* C21: unwrap and expect on a failure, and unwrapErr and expectErr on a success,
\* raise an Error whose message has a nested, indented rendering of the value
\* the Result holds.
C21_AssertionRendering ==
    AssertionPoint => ThrewError /\ HasRenderingOf(heap[last.val.n].message, Held)

\* the literal printed form of a primitive, a string between double quotes
Literal(v) == IF v.k = "string" THEN sQuote \o v.s \o sQuote ELSE PrimToString(v)

\* every line of str is in text behind the prefix
HasPrefixedLines(text, str) ==
    \A i \in 1..Len(SplitLines(str)) :
        Contains(text, origErrorPrefix \o SplitLines(str)[i])

\* C22: unwrap and expect on a failure holding e raise the Error that starts with
\* the head line whatever e is, and what follows the head line is the prefixed
\* lines of e's stack when e is a native Error with a stack, the prefixed string
\* form of e when e is an object with a string conversion of its own, the "is
\* object" notice when e is a plain object, and has the literal printed form of e
\* when e is a primitive.
C22_Rendering ==
    (last.op \in {"unwrap", "expect"} /\ RecvCls = "ERR") =>
        LET head == ErrHead(IF last.op = "unwrap" THEN sUnwrapHead ELSE last.a.msg)
            msg == heap[last.val.n].message
            tail == SubSeq(msg, Len(head) + 1, Len(msg))
        IN /\ ThrewError
           /\ heap[last.val.n].name = sError
           /\ StartsWith(msg, head)
           /\ IF Held.k # "object" THEN Contains(tail, Literal(Held))
              ELSE IF InstanceOfError(heap, Held)
              THEN heap[Held.n].stack.k = "string" =>
                      HasPrefixedLines(tail, heap[Held.n].stack.s)
              ELSE IF IsDefaultToString(heap, Held) THEN tail = sOrigIsObject
              ELSE (HasToString(heap, Held) /\ ToStringOf(heap, Held).k = "string") =>
                      HasPrefixedLines(tail, ToStringOf(heap, Held).s)

CombinatorOps == {"inspect", "inspectErr", "map", "mapErr", "mapOrElse"}

\* the places in the log of the invocations made for the call e
PlacesOf(e) == {x \in 1..Len(calls) : calls[x].site = e.site}

\* C23: of two combinators of which the second is attached to the AsyncResult the
\* first returned, or to the AsyncResult the first is attached to, no function of
\* the second is invoked before a function of the first; in a chain, a function
\* of the second is invoked only when the AsyncResult the first returned has
\* settled, so, for map, mapErr and mapOrElse, when the promise the function of
\* the first returned has settled; and every function is invoked with what the
\* Result its receiver settled to holds.
C23_ChainOrder ==
    \A i \in 1..Len(asyncs), j \in 1..Len(asyncs) :
        LET e1 == asyncs[i]
            e2 == asyncs[j]
        IN (i < j /\ e1.op \in CombinatorOps /\ e2.op \in CombinatorOps /\ e2.src # 0
              /\ e2.src \in {e1.out, e1.src}) =>
             /\ \A x \in PlacesOf(e1), y \in PlacesOf(e2) : x < y
             /\ \A y \in PlacesOf(e2) :
                   /\ Fulfilled(e2.src)
                   /\ calls[y].args = <<heap[SrcResult(e2)].val>>
             /\ (e2.src = e1.out /\ PlacesOf(e2) # {}) =>
                   \A x \in PlacesOf(e1) :
                       (e1.op \notin {"inspect", "inspectErr"} /\ calls[x].ret.k = "promise")
                          => Settled(calls[x].ret.n)

\* a.map(f1).map(f2) with f1 returning a promise: f2 was invoked, after f1 and after
\* the promise settled
C23_Witness ==
    \E i \in 1..Len(asyncs), j \in 1..Len(asyncs) :
        /\ i < j /\ asyncs[j].src = asyncs[i].out
        /\ asyncs[i].op = "map" /\ asyncs[i].a.cb.name = "async"
        /\ asyncs[j].op = "map"
        /\ PlacesOf(asyncs[i]) # {} /\ PlacesOf(asyncs[j]) # {}

\* C24: while the promise an AsyncResult holds is pending, the promise of every
\* AsyncResult derived from it and the promise every query of it returned are
\* pending, and no function given to them has been invoked; so it is of what is
\* derived from those in turn, and of fromPromise while the caller's promise is
\* pending.
C24_PendingStaysPending ==
    \A i \in 1..Len(asyncs) :
        LET e == asyncs[i]
        IN (e.op \in CombinatorOps \cup QueryOps \cup {"fromPromise"}
              /\ e.src # 0 /\ ~Settled(e.src)) =>
             /\ e.out # 0 /\ ~Settled(e.out)
             /\ e.op # "fromPromise" => PlacesOf(e) = {}

\* fromPromise(p).map(f).mapErr(g) with p never settled: nothing is left to run,
\* the three promises are pending and neither f nor g was invoked
C24_Witness ==
    /\ Len(asyncs) = 3 /\ Quiet /\ calls = <<>>
    /\ asyncs[1].op = "fromPromise" /\ ~Settled(asyncs[1].src)
    /\ asyncs[2].op = "map" /\ asyncs[2].src = asyncs[1].out
    /\ asyncs[3].op = "mapErr" /\ asyncs[3].src = asyncs[2].out
    /\ ~Settled(asyncs[1].out) /\ ~Settled(asyncs[2].out) /\ ~Settled(asyncs[3].out)

\* how often the calls made so far invoked the functions given to them: a function
\* made by asyncResultify or createAsyncResult invoked fn once, with the
\* parameters of the call; asyncResultify invoked mapErr at most once; a
\* combinator invoked at most one function, at most once; the others invoked none
CallCounts ==
    \A i \in 1..Len(asyncs) :
        LET e == asyncs[i]
            n == Cardinality(PlacesOf(e))
            first == CHOOSE x \in PlacesOf(e) : \A y \in PlacesOf(e) : x <= y
        IN CASE e.op \in {"asyncResultify", "createAsyncResult"} ->
                  /\ n >= 1 /\ n <= (IF e.a.cb2 = NoFn THEN 1 ELSE 2)
                  /\ calls[first].fn = e.a.cb /\ calls[first].args = e.a.params
                  /\ \A y \in PlacesOf(e) \ {first} :
                        calls[y].fn = e.a.cb2 /\ Len(calls[y].args) = 1
             [] e.op \in CombinatorOps \cup {"unwrapOrElse"} ->
                  /\ n <= 1
                  /\ \A y \in PlacesOf(e) : calls[y].fn \in {e.a.cb, e.a.cb2}
             [] OTHER -> n = 0

\* C25: whatever is attached to an AsyncResult, and whatever runs, an AsyncResult
\* keeps the promise it holds, a settled promise keeps its state and its value, a
\* promise made from a Result is fulfilled with that Result, and the functions
\* given to the calls are invoked as CallCounts says.
C25_NoRerun ==
    [][/\ \A p \in 1..Len(proms) :
             Settled(p) => /\ proms'[p].state = proms[p].state
                           /\ proms'[p].value = proms[p].value
       /\ \A i \in 1..Len(asyncs) :
             /\ asyncs'[i] = asyncs[i]
             /\ asyncs[i].ar # 0 => heap'[asyncs[i].ar] = heap[asyncs[i].ar]
             /\ asyncs[i].op = "fromResult" =>
                   proms'[asyncs[i].out].value = asyncs[i].a.params[1]
       /\ CallCounts']_vars

\* asyncResultify(fn)() with a map and a query attached to what it returned, all
\* settled: fn was invoked once
C25_Witness ==
    /\ Len(asyncs) = 3 /\ Quiet
    /\ asyncs[1].op = "asyncResultify" /\ asyncs[1].ar # 0
    /\ asyncs[2].op = "map" /\ asyncs[2].src = asyncs[1].out
    /\ asyncs[3].op = "unwrapOr" /\ asyncs[3].src = asyncs[1].out
    /\ Settled(asyncs[1].out) /\ Settled(asyncs[2].out) /\ Settled(asyncs[3].out)
    /\ Cardinality({x \in 1..Len(calls) : calls[x].fn = asyncs[1].a.cb}) = 1

\* C26: once the receiver of inspect or inspectErr has settled to a Result and
\* nothing is left to run, the derived AsyncResult is fulfilled with a Result of
\* the same variant holding the same payload, whether the promise the function
\* returned is pending, fulfilled or rejected (a function that throws aside).
C26_InspectNoAwait ==
    \A i \in 1..Len(asyncs) :
        LET e == asyncs[i]
            r == SrcResult(e)
        IN (e.op \in {"inspect", "inspectErr"} /\ Fulfilled(e.src) /\ Quiet
              /\ \A x \in PlacesOf(e) : calls[x].tag = "return") =>
             /\ FulfilledWith(e.out, heap[r].cls, heap[r].val)
             /\ PlacesOf(e) # {} <=> (e.op = "inspect") = (heap[r].cls = "OK")

\* inspect with a function whose promise was rejected: the derived AsyncResult is
\* fulfilled with the success the receiver settled to
C26_Witness ==
    \E i \in 1..Len(asyncs) :
        LET e == asyncs[i]
        IN /\ e.op = "inspect" /\ Fulfilled(e.src) /\ Quiet
           /\ \E x \in PlacesOf(e) :
                 /\ calls[x].ret.k = "promise" /\ Rejected(calls[x].ret.n)
           /\ FulfilledWith(e.out, "OK", heap[SrcResult(e)].val)

\* the places where a function invoked for the combinator e failed: it threw, or
\* (a mapper or a fallback) the promise it returned was rejected
FailedPlaces(e) ==
    {x \in PlacesOf(e) :
        \/ calls[x].tag = "throw"
        \/ /\ e.op \notin {"inspect", "inspectErr"}
           /\ calls[x].ret.k = "promise" /\ Rejected(calls[x].ret.n)}

\* what the function failed with at place x
FailureAt(x) == IF calls[x].tag = "throw" THEN calls[x].ret ELSE proms[calls[x].ret.n].value

\* C27: when a function given to a combinator threw x, or the promise a mapper or
\* a fallback returned was rejected with x, and nothing is left to run, the
\* derived AsyncResult's promise is rejected with x itself, the promise of every
\* query of the derived AsyncResult is rejected with x, the receiver's promise is
\* still fulfilled, and what else was attached to the receiver is not rejected by
\* it: isOk, ok and unwrapOr of the receiver are fulfilled and a combinator of the
\* receiver whose own function did not fail is not rejected.
C27_MapperFailure ==
    \A i \in 1..Len(asyncs) :
        LET e == asyncs[i]
        IN (e.op \in CombinatorOps /\ Quiet) =>
             \A x \in FailedPlaces(e) :
                /\ Rejected(e.out) /\ proms[e.out].value = FailureAt(x)
                /\ Fulfilled(e.src)
                /\ \A j \in 1..Len(asyncs) :
                      LET q == asyncs[j]
                      IN /\ (q.src = e.out /\ q.op \in QueryOps) =>
                               Rejected(q.out) /\ proms[q.out].value = FailureAt(x)
                         /\ (j # i /\ q.src = e.src /\ q.op \in {"isOk", "ok", "unwrapOr"}) =>
                               Fulfilled(q.out)
                         /\ (j # i /\ q.src = e.src /\ q.op \in CombinatorOps
                               /\ FailedPlaces(q) = {}) => ~Rejected(q.out)

\* map with a function whose promise was rejected with an Error object, and isOk
\* of the derived AsyncResult: both promises are rejected with that object
C27_Witness ==
    /\ Len(asyncs) = 3 /\ Quiet
    /\ asyncs[2].op = "map" /\ asyncs[2].src = asyncs[1].out
    /\ asyncs[3].op = "isOk" /\ asyncs[3].src = asyncs[2].out
    /\ \E x \in PlacesOf(asyncs[2]) :
          calls[x].ret.k = "promise" /\ proms[calls[x].ret.n].state = "rejected"
             /\ proms[calls[x].ret.n].value = Obj(1)
    /\ Rejected(asyncs[2].out) /\ proms[asyncs[2].out].value = Obj(1)
    /\ Rejected(asyncs[3].out) /\ proms[asyncs[3].out].value = Obj(1)

\* C28: the AsyncResult made by fromResultPromise(p) holds p itself, and the one
\* made by a function of createAsyncResult(fn) holds the promise fn returned; when
\* fn throws the function throws what fn threw and makes no AsyncResult; when the
\* promise is rejected with r and nothing is left to run, the promise of every
\* query and of every combinator of that AsyncResult is rejected with r, and no
\* function given to them was invoked.
C28_WrapsAsIs ==
    \A i \in 1..Len(asyncs) :
        LET e == asyncs[i]
        IN /\ e.op = "fromResultPromise" =>
                 e.ar # 0 /\ heap[e.ar].val = e.a.params[1] /\ e.out = e.a.params[1].n
           /\ e.op = "createAsyncResult" =>
                 /\ Cardinality(PlacesOf(e)) = 1
                 /\ \A x \in PlacesOf(e) :
                       IF calls[x].tag = "throw"
                       THEN /\ e.ar = 0
                            /\ last.op = "createAsyncResult" /\ last.tag = "throw"
                            /\ last.val = calls[x].ret
                       ELSE e.ar # 0 /\ heap[e.ar].val = calls[x].ret
           /\ (e.op \in {"fromResultPromise", "createAsyncResult"} /\ e.ar # 0
                 /\ Rejected(e.out) /\ Quiet) =>
                 \A j \in 1..Len(asyncs) :
                     (j # i /\ asyncs[j].src = e.out) =>
                        /\ Rejected(asyncs[j].out)
                        /\ proms[asyncs[j].out].value = proms[e.out].value
                        /\ PlacesOf(asyncs[j]) = {}

\* createAsyncResult(fn)().unwrapOr(0) with the promise of fn rejected with an Error
\* object: the promise unwrapOr returned is rejected with that object
C28_Witness ==
    /\ Len(asyncs) = 2 /\ Quiet
    /\ asyncs[1].op = "createAsyncResult" /\ asyncs[1].ar # 0
    /\ Rejected(asyncs[1].out) /\ proms[asyncs[1].out].value = Obj(1)
    /\ asyncs[2].op = "unwrapOr" /\ asyncs[2].src = asyncs[1].out
    /\ Rejected(asyncs[2].out) /\ proms[asyncs[2].out].value = Obj(1)

\* C29: what thrownUnknownToBaseError returned, given to it again, comes back as
\* it is and nothing is made; so the BaseError an earlier call made, given to a
\* later call, is returned itself and is not wrapped again.
C29_NormalizeIdempotent ==
    last.op = "thrownUnknownToBaseError" =>
        /\ last.tag = "return"
        /\ LET again == thrownUnknownToBaseError(CurM, last.val)
           IN again.tag = "return" /\ again.val = last.val /\ again.m.heap = heap
        /\ (NormArg.k = "object" /\ NormArg.n > Len(BaseHeap)) =>
              last.val = NormArg /\ Len(heap) = last.heapBefore

\* thrownUnknownToBaseError(5) made a BaseError, and the second call, given that
\* BaseError, returned it
C29_Witness ==
    /\ last.op = "thrownUnknownToBaseError" /\ nCalls = 2
    /\ NormArg.k = "object" /\ NormArg.n > Len(BaseHeap)
    /\ heap[NormArg.n].cls = "BaseError" /\ heap[NormArg.n].val = Num(5)
    /\ last.val = NormArg /\ Len(heap) = Len(BaseHeap) + 1

\* C30: with the caller settling every promise it made and the engine running the
\* microtasks, the promise of every AsyncResult made and the promise every query
\* returned is settled in the end.
C30_ChainsSettle ==
    \A i \in 1..MaxChainCalls :
        [](Len(asyncs) >= i => <>(Len(asyncs) >= i /\ Settled(asyncs[i].out)))

\* a.map(f).unwrapOrElse(g) with f and g returning promises, all settled, the three
\* promises of the chain too
C30_Witness ==
    /\ Len(asyncs) = 3 /\ Quiet
    /\ asyncs[2].op = "map" /\ asyncs[2].src = asyncs[1].out
    /\ asyncs[2].a.cb.name = "async"
    /\ asyncs[3].op = "unwrapOrElse" /\ asyncs[3].src = asyncs[2].out
    /\ asyncs[3].a.cb.name = "async"
    /\ \A i \in 1..3 : Settled(asyncs[i].out)
    /\ \A p \in 1..Len(proms) : Settled(p)

====
